---- MODULE Spec2Model ----
(***************************************************************************)
(* EditPDF backend: the document store (uploads directory), the undo/redo  *)
(* history, the mutating and reading entry points, the worker threads the  *)
(* HTTP layer dispatches them to, and the content-stream tokenizer and     *)
(* string codec of the stream editor.                                      *)
(*                                                                         *)
(* File bytes are modelled as a revision number: an upload stores revision *)
(* 0 and every successful save stores the revision after the one that was  *)
(* opened.  The history only copies and compares bytes, so a revision      *)
(* number is all it can observe of them.                                   *)
(***************************************************************************)
EXTENDS Integers, Sequences, FiniteSets, TLC

VARIABLES
    files,        \* uploads directory: doc_id -> bytes of <doc_id>.pdf
    undo_stacks,  \* history._undo_stacks: doc_id -> list of bytes
    redo_stacks,  \* history._redo_stacks: doc_id -> list of bytes
    last,         \* the call that ended last: what was asked, what came back
    threads,      \* worker threads of the executor: the request each one runs
    fn            \* the pure function under test: its input and its results

vars == <<files, undo_stacks, redo_stacks, last, threads, fn>>

(***************************************************************************)
(* Bounds of the model                                                     *)
(***************************************************************************)
MaxRev == 2        \* revisions a document goes through
PageCount == 2     \* pages of the uploaded document
MaxSnapshots == 2  \* history depth explored with the full set of inputs

(***************************************************************************)
(* Program constants                                                       *)
(***************************************************************************)
MAX_UNDO == 20
DOC_ID_LEN == 16

NoFile == -1
Null == "null"

(***************************************************************************)
(* dict helpers                                                            *)
(***************************************************************************)
Put(d, k, v) == [x \in DOMAIN d \cup {k} |-> IF x = k THEN v ELSE d[x]]
Del(d, k) == [x \in DOMAIN d \ {k} |-> d[x]]
Get(d, k, default) == IF k \in DOMAIN d THEN d[k] ELSE default
EmptyDict == [x \in {} |-> 0]

(***************************************************************************)
(* Document ids.  A doc_id is a string, modelled as a sequence of          *)
(* characters so that the pattern can be matched character by character.   *)
(***************************************************************************)
HexChars == {"0", "1", "2", "3", "4", "5", "6", "7", "8", "9",
             "a", "b", "c", "d", "e", "f"}

IdA == <<"0", "1", "2", "3", "4", "5", "6", "7",
         "8", "9", "a", "b", "c", "d", "e", "f">>
IdB == <<"f", "e", "d", "c", "b", "a", "9", "8",
         "7", "6", "5", "4", "3", "2", "1", "0">>
IdShort == SubSeq(IdA, 1, 15)
IdLong == IdA \o <<"0">>
IdUpper == SubSeq(IdA, 1, 15) \o <<"F">>
IdNewline == IdA \o <<"\n">>

\* doc_ids a request may carry
DocIds == {IdA, IdB, IdShort, IdLong, IdUpper, IdNewline}

\* what the claims mean by a well-formed id: exactly 16 characters of 0-9a-f
IsHex16(s) == Len(s) = DOC_ID_LEN /\ \A i \in 1..Len(s) : s[i] \in HexChars

\* _DOC_ID_RE.match(doc_id): ^ [0-9a-f]{16} $, where Python's $ matches at the
\* end of the string and also just before a line feed that ends the string
DOC_ID_RE_match(s) ==
    /\ Len(s) >= DOC_ID_LEN
    /\ \A i \in 1..DOC_ID_LEN : s[i] \in HexChars
    /\ \/ Len(s) = DOC_ID_LEN
       \/ Len(s) = DOC_ID_LEN + 1 /\ s[DOC_ID_LEN + 1] = "\n"

\* the pattern's verdict on every doc_id of the model, computed once
doc_id_re_verdict == [s \in DocIds |-> DOC_ID_RE_match(s)]

\* _validate_doc_id: TRUE when it returns, FALSE when it raises ValueError
validate_doc_id(doc_id) == doc_id_re_verdict[doc_id]

\* path.exists() for UPLOAD_DIR / f"{doc_id}.pdf"
path_exists(doc_id) == doc_id \in DOMAIN files

(***************************************************************************)
(* history.py                                                              *)
(***************************************************************************)
\* faulty variants of push_bounded: the new entry put under the stack instead
\* of on top of it; the bound tested one entry too late
push_bounded_front(stack, pdf_bytes) ==
    LET inserted == <<pdf_bytes>> \o stack
    IN  IF Len(inserted) > MAX_UNDO THEN Tail(inserted) ELSE inserted

push_bounded_late(stack, pdf_bytes) ==
    LET appended == Append(stack, pdf_bytes)
    IN  IF Len(appended) > MAX_UNDO + 1 THEN Tail(appended) ELSE appended

\* stack.append(pdf_bytes); if len(stack) > MAX_UNDO: stack.pop(0)
push_bounded(stack, pdf_bytes) ==
    LET appended == Append(stack, pdf_bytes)
    IN  IF Len(appended) > MAX_UNDO THEN Tail(appended) ELSE appended

\* _snapshot, effect on _undo_stacks (for a doc_id that passed validation)
snapshot_undo(doc_id) ==
    IF ~path_exists(doc_id) THEN undo_stacks
    ELSE Put(undo_stacks, doc_id,
             push_bounded(Get(undo_stacks, doc_id, <<>>), files[doc_id]))

\* faulty variant of snapshot_redo: the redo stack is left as it is
snapshot_redo_kept(doc_id) == redo_stacks

\* _snapshot, effect on _redo_stacks: _redo_stacks.pop(doc_id, None)
snapshot_redo(doc_id) ==
    IF ~path_exists(doc_id) THEN redo_stacks ELSE Del(redo_stacks, doc_id)

(***************************************************************************)
(* Pages.  doc[page_num] is the PDF library's Document.__getitem__: it     *)
(* raises IndexError for page_num >= page_count and counts a negative      *)
(* page_num back from the last page.                                       *)
(***************************************************************************)
\* page numbers a request may carry: both ends of the range and one past each
PageNums == {-1, 0, PageCount - 1, PageCount}

getitem_raises(page_num) == page_num >= PageCount
range_check_raises(page_num) == page_num < 0 \/ page_num >= PageCount

(***************************************************************************)
(* What each entry point does between opening the document and saving it:  *)
(* the exception it raises, or "none".                                     *)
(***************************************************************************)
\* text_service.edit_span; found: _find_span_by_index returned an item;
\* surgery: the direct stream edit was tried and succeeded; lib_error: the
\* redaction or the reinsertion raised
edit_span_body(page_num, found, text_only, new_text_empty, surgery, lib_error) ==
    IF getitem_raises(page_num) THEN "IndexError"
    ELSE IF ~found THEN "IndexError"
    ELSE IF text_only /\ ~new_text_empty /\ surgery THEN "none"
    ELSE IF lib_error THEN "RuntimeError"
    ELSE "none"

\* text_service.add_text
add_text_body(page_num) ==
    IF getitem_raises(page_num) THEN "IndexError" ELSE "none"

\* image_service.add_image; bad_image: Pixmap / insert_image rejects the bytes
add_image_body(page_num, bad_image) ==
    IF getitem_raises(page_num) THEN "IndexError"
    ELSE IF bad_image THEN "RuntimeError"
    ELSE "none"

\* image_service.delete_image / move_image / resize_image
image_edit_body(page_num, found) ==
    IF range_check_raises(page_num) THEN "IndexError"
    ELSE IF ~found THEN "IndexError"
    ELSE "none"

\* document.render_page, text_service.extract_text_spans, extract_images
read_page_body(page_num) ==
    IF range_check_raises(page_num) THEN "IndexError" ELSE "none"

(***************************************************************************)
(* main.py: the status each endpoint answers for an exception              *)
(***************************************************************************)
Mutators == {"edit_span", "add_text", "add_image",
             "delete_image", "move_image", "resize_image"}
PageReaders == {"render_page", "extract_text_spans", "extract_images"}

HttpStatus(op, exc) ==
    IF exc = "none" THEN 200
    ELSE IF exc = "ValueError" THEN 400
    ELSE IF exc = "FileNotFoundError" THEN 404
    ELSE IF op = "add_image" THEN 400
    ELSE IF exc = "IndexError" /\ op # "add_text" THEN 404
    ELSE 500

\* undo_endpoint / redo_endpoint
HistoryStatus(exc, success) ==
    IF exc = "ValueError" THEN 400
    ELSE IF ~success THEN 404
    ELSE 200

(***************************************************************************)
(* The entry points, each run from call to return                          *)
(***************************************************************************)
Before(doc_id) == Get(files, doc_id, NoFile)

\* the call before this one, as far as it concerns the same document: a
\* mutating call on the existing document, an undo or redo that returned
\* True, or anything else
Prior(doc_id) ==
    IF last.doc_id = doc_id /\ last.op \in Mutators /\ last.before # NoFile
    THEN [kind |-> "mutator", ok |-> last.exc = "none", before |-> last.before]
    ELSE IF /\ last.doc_id = doc_id /\ last.op \in {"undo", "redo"}
            /\ last.exc = "none" /\ last.ret = TRUE
    THEN [kind |-> last.op, ok |-> TRUE, before |-> last.before]
    ELSE [kind |-> "other", ok |-> FALSE, before |-> NoFile]

\* the record of a call: the request, how it ended, and what the document's
\* file and stacks were when it started
CallRecord(op, doc_id, page_num, exc, status, ret) ==
    [op |-> op, doc_id |-> doc_id, page_num |-> page_num,
     exc |-> exc, status |-> status, ret |-> ret,
     before |-> Before(doc_id),
     undo_len |-> Len(Get(undo_stacks, doc_id, <<>>)),
     redo_len |-> Len(Get(redo_stacks, doc_id, <<>>)),
     prior |-> Prior(doc_id)]

\* faulty variant of file_after: the document is saved before the stage that
\* raises
file_after_saved_early(doc_id, exc) ==
    IF exc \in {"none", "RuntimeError"} THEN files[doc_id] + 1 ELSE files[doc_id]

\* the bytes of <doc_id>.pdf when a mutating call on it ends: the save is the
\* last statement of every mutating entry point, reached only when nothing
\* before it raised
file_after(doc_id, exc) ==
    IF exc = "none" THEN files[doc_id] + 1 ELSE files[doc_id]

\* a mutating entry point: _snapshot, _open_doc, the body, the save
Mutate(op, doc_id, page_num, body) ==
    LET valid == validate_doc_id(doc_id)
        exc == IF ~valid THEN "ValueError"
               ELSE IF ~path_exists(doc_id) THEN "FileNotFoundError"
               ELSE body
    IN  /\ exc = "none" => files[doc_id] < MaxRev
        /\ undo_stacks' = IF valid THEN snapshot_undo(doc_id) ELSE undo_stacks
        /\ redo_stacks' = IF valid THEN snapshot_redo(doc_id) ELSE redo_stacks
        /\ files' = IF valid /\ path_exists(doc_id)
                    THEN [files EXCEPT ![doc_id] = file_after(doc_id, exc)]
                    ELSE files
        /\ last' = CallRecord(op, doc_id, page_num, exc, HttpStatus(op, exc), Null)

\* the ways each body can end on a page, over every value of its other inputs
edit_span_ends ==
    [page_num \in PageNums |->
        {edit_span_body(page_num, found, text_only, new_text_empty,
                        surgery, lib_error) :
            found \in BOOLEAN, text_only \in BOOLEAN,
            new_text_empty \in BOOLEAN, surgery \in BOOLEAN,
            lib_error \in BOOLEAN}]
add_image_ends ==
    [page_num \in PageNums |->
        {add_image_body(page_num, bad_image) : bad_image \in BOOLEAN}]
image_edit_ends ==
    [page_num \in PageNums |->
        {image_edit_body(page_num, found) : found \in BOOLEAN}]

EditSpan(doc_id, page_num) ==
    \E body \in edit_span_ends[page_num] :
        /\ Mutate("edit_span", doc_id, page_num, body)
        /\ UNCHANGED <<threads, fn>>

AddText(doc_id, page_num) ==
    /\ Mutate("add_text", doc_id, page_num, add_text_body(page_num))
    /\ UNCHANGED <<threads, fn>>

AddImage(doc_id, page_num) ==
    \E body \in add_image_ends[page_num] :
        /\ Mutate("add_image", doc_id, page_num, body)
        /\ UNCHANGED <<threads, fn>>

DeleteImage(doc_id, page_num) ==
    \E body \in image_edit_ends[page_num] :
        /\ Mutate("delete_image", doc_id, page_num, body)
        /\ UNCHANGED <<threads, fn>>

MoveImage(doc_id, page_num) ==
    \E body \in image_edit_ends[page_num] :
        /\ Mutate("move_image", doc_id, page_num, body)
        /\ UNCHANGED <<threads, fn>>

ResizeImage(doc_id, page_num) ==
    \E body \in image_edit_ends[page_num] :
        /\ Mutate("resize_image", doc_id, page_num, body)
        /\ UNCHANGED <<threads, fn>>

\* history.undo
undo(doc_id) ==
    LET valid == validate_doc_id(doc_id)
        stack == Get(undo_stacks, doc_id, <<>>)
        success == valid /\ stack # <<>>
    IN  /\ IF success
           THEN /\ redo_stacks' = Put(redo_stacks, doc_id,
                       Append(Get(redo_stacks, doc_id, <<>>), files[doc_id]))
                /\ files' = [files EXCEPT ![doc_id] = stack[Len(stack)]]
                /\ undo_stacks' = [undo_stacks EXCEPT
                       ![doc_id] = SubSeq(stack, 1, Len(stack) - 1)]
           ELSE UNCHANGED <<files, undo_stacks, redo_stacks>>
        /\ last' = CallRecord("undo", doc_id, 0,
                               IF valid THEN "none" ELSE "ValueError",
                               HistoryStatus(IF valid THEN "none" ELSE "ValueError",
                                             success),
                               IF valid THEN success ELSE Null)

\* a faulty variant of redo: the current bytes are not pushed on the undo
\* stack
redo_unpushed(doc_id) ==
    LET valid == validate_doc_id(doc_id)
        stack == Get(redo_stacks, doc_id, <<>>)
        success == valid /\ stack # <<>>
    IN  /\ IF success
           THEN /\ undo_stacks' = undo_stacks
                /\ files' = [files EXCEPT ![doc_id] = stack[Len(stack)]]
                /\ redo_stacks' = [redo_stacks EXCEPT
                       ![doc_id] = SubSeq(stack, 1, Len(stack) - 1)]
           ELSE UNCHANGED <<files, undo_stacks, redo_stacks>>
        /\ last' = CallRecord("redo", doc_id, 0,
                               IF valid THEN "none" ELSE "ValueError",
                               HistoryStatus(IF valid THEN "none" ELSE "ValueError",
                                             success),
                               IF valid THEN success ELSE Null)

\* history.redo
redo(doc_id) ==
    LET valid == validate_doc_id(doc_id)
        stack == Get(redo_stacks, doc_id, <<>>)
        success == valid /\ stack # <<>>
    IN  /\ IF success
           THEN /\ undo_stacks' = Put(undo_stacks, doc_id,
                       Append(Get(undo_stacks, doc_id, <<>>), files[doc_id]))
                /\ files' = [files EXCEPT ![doc_id] = stack[Len(stack)]]
                /\ redo_stacks' = [redo_stacks EXCEPT
                       ![doc_id] = SubSeq(stack, 1, Len(stack) - 1)]
           ELSE UNCHANGED <<files, undo_stacks, redo_stacks>>
        /\ last' = CallRecord("redo", doc_id, 0,
                               IF valid THEN "none" ELSE "ValueError",
                               HistoryStatus(IF valid THEN "none" ELSE "ValueError",
                                             success),
                               IF valid THEN success ELSE Null)

\* the undo endpoint's call
Undo(doc_id) ==
    /\ undo(doc_id)
    /\ UNCHANGED <<threads, fn>>

\* the redo endpoint's call
Redo(doc_id) ==
    /\ redo(doc_id)
    /\ UNCHANGED <<threads, fn>>

\* a reading entry point: _open_doc, then the body
Read(op, doc_id, page_num, body) ==
    LET exc == IF ~validate_doc_id(doc_id) THEN "ValueError"
               ELSE IF ~path_exists(doc_id) THEN "FileNotFoundError"
               ELSE body
    IN  /\ last' = CallRecord(op, doc_id, page_num, exc, HttpStatus(op, exc),
                               IF exc = "none" THEN files[doc_id] ELSE Null)
        /\ UNCHANGED <<files, undo_stacks, redo_stacks>>

RenderPage(doc_id, page_num) ==
    /\ Read("render_page", doc_id, page_num, read_page_body(page_num))
    /\ UNCHANGED <<threads, fn>>

ExtractTextSpans(doc_id, page_num) ==
    /\ Read("extract_text_spans", doc_id, page_num, read_page_body(page_num))
    /\ UNCHANGED <<threads, fn>>

ExtractImages(doc_id, page_num) ==
    /\ Read("extract_images", doc_id, page_num, read_page_body(page_num))
    /\ UNCHANGED <<threads, fn>>

\* document.get_pdf_bytes
GetPdfBytes(doc_id) ==
    /\ Read("get_pdf_bytes", doc_id, 0, "none")
    /\ UNCHANGED <<threads, fn>>

\* document.save_upload of a well-formed PDF within the size limit; the new
\* id is a content hash plus a random suffix, an id no file has yet
SaveUpload(doc_id) ==
    /\ IsHex16(doc_id)
    /\ ~path_exists(doc_id)
    /\ files' = Put(files, doc_id, 0)
    /\ last' = CallRecord("save_upload", doc_id, 0, "none", 200, doc_id)
    /\ UNCHANGED <<undo_stacks, redo_stacks, threads, fn>>

NoCall == [op |-> "none", doc_id |-> <<>>, page_num |-> 0, exc |-> "none",
           status |-> 0, ret |-> Null, before |-> NoFile,
           undo_len |-> 0, redo_len |-> 0,
           prior |-> [kind |-> "other", ok |-> FALSE, before |-> NoFile]]

Init ==
    /\ files = EmptyDict
    /\ undo_stacks = EmptyDict
    /\ redo_stacks = EmptyDict
    /\ last = NoCall
    /\ threads = EmptyDict
    /\ fn = Null

\* history depth of a document
Depth(doc_id) ==
    Len(Get(undo_stacks, doc_id, <<>>)) + Len(Get(redo_stacks, doc_id, <<>>))

\* the history of doc_id is still short enough for another snapshot
Shallow(doc_id) == Depth(doc_id) < MaxSnapshots

\* every entry point, every doc_id and page number; one document is uploaded
\* and its history is explored to MaxSnapshots entries
Next ==
    \/ SaveUpload(IdA)
    \/ \E doc_id \in DocIds, page_num \in PageNums :
        \/ Shallow(doc_id) /\ EditSpan(doc_id, page_num)
        \/ Shallow(doc_id) /\ AddText(doc_id, page_num)
        \/ Shallow(doc_id) /\ AddImage(doc_id, page_num)
        \/ Shallow(doc_id) /\ DeleteImage(doc_id, page_num)
        \/ Shallow(doc_id) /\ MoveImage(doc_id, page_num)
        \/ Shallow(doc_id) /\ ResizeImage(doc_id, page_num)
    \/ \E doc_id \in DocIds, page_num \in PageNums :
        \/ RenderPage(doc_id, page_num)
        \/ ExtractTextSpans(doc_id, page_num)
        \/ ExtractImages(doc_id, page_num)
    \/ \E doc_id \in DocIds :
        \/ Undo(doc_id)
        \/ Redo(doc_id)
        \/ GetPdfBytes(doc_id)

Spec == Init /\ [][Next]_vars

\* one document, its first page, every mutating entry point, undo and redo:
\* the history is explored to its full depth
NextHistory ==
    \/ SaveUpload(IdA)
    \/ EditSpan(IdA, 0)
    \/ Undo(IdA)
    \/ Redo(IdA)

SpecHistory == Init /\ [][NextHistory]_vars

(***************************************************************************)
(* Worker threads.  main._run_sync hands every request to the event loop's *)
(* default executor (run_in_executor(None, ...)), a pool of threads; no    *)
(* lock is taken anywhere in the backend.  A call is therefore a sequence  *)
(* of steps that the steps of other calls can come between: _snapshot      *)
(* reads the file, then changes the stacks; _open_doc reads the file; the  *)
(* body works on the opened document in memory; the save writes the file.  *)
(***************************************************************************)
Workers == {"w1", "w2"}
ThreadDocIds == {IdA, IdB}
\* one entry point that saves incrementally, one that saves in full, and undo
ThreadOps == {"edit_span", "delete_image", "undo"}

Idle == [pc |-> "idle", op |-> "none", doc_id |-> <<>>, snap |-> NoFile,
         doc |-> NoFile, started |-> FALSE, pushed |-> FALSE, wrote |-> FALSE,
         exc |-> "none"]

\* faulty variant of first_step: a mutating entry point without its _snapshot
first_step_no_snapshot(op) == IF op = "undo" THEN "lookup" ELSE "open"

\* the first statement of an entry point: _snapshot(doc_id) in every mutating
\* one, the stack lookup in undo
first_step(op) == IF op = "undo" THEN "lookup" ELSE "snapshot"

Step(t, rec) ==
    /\ threads' = [threads EXCEPT ![t] = rec]
    /\ UNCHANGED <<last, fn>>

\* mutating calls on doc_id that are running and have not pushed yet
InFlight(doc_id) ==
    Cardinality({t \in Workers : /\ threads[t].op \in Mutators
                                 /\ threads[t].doc_id = doc_id
                                 /\ threads[t].pc \in {"snapshot", "push"}})

\* _run_sync: the request starts on an idle worker
Dispatch(t, op, doc_id) ==
    /\ threads[t].pc = "idle"
    /\ op \in Mutators => Depth(doc_id) + InFlight(doc_id) < MaxSnapshots
    /\ Step(t, [Idle EXCEPT !.pc = first_step(op), !.op = op, !.doc_id = doc_id])
    /\ UNCHANGED <<files, undo_stacks, redo_stacks>>

\* _snapshot, first half: validate, path.exists(), path.read_bytes()
SnapshotRead(t) ==
    LET th == threads[t]
    IN  /\ th.pc = "snapshot"
        /\ Step(t, IF ~validate_doc_id(th.doc_id)
                   THEN [th EXCEPT !.pc = "return", !.exc = "ValueError",
                                   !.started = TRUE]
                   ELSE IF ~path_exists(th.doc_id)
                   THEN [th EXCEPT !.pc = "open", !.started = TRUE]
                   ELSE [th EXCEPT !.pc = "push", !.started = TRUE,
                                   !.snap = files[th.doc_id]])
        /\ UNCHANGED <<files, undo_stacks, redo_stacks>>

\* _snapshot, second half: append to the undo stack, drop the oldest entry
\* over the bound, drop the document's redo stack
SnapshotPush(t) ==
    LET th == threads[t]
    IN  /\ th.pc = "push"
        /\ undo_stacks' = Put(undo_stacks, th.doc_id,
               push_bounded(Get(undo_stacks, th.doc_id, <<>>), th.snap))
        /\ redo_stacks' = Del(redo_stacks, th.doc_id)
        /\ Step(t, [th EXCEPT !.pc = "open", !.pushed = TRUE, !.snap = NoFile])
        /\ UNCHANGED files

\* _open_doc: validate, path.exists(), pymupdf.open
OpenDoc(t) ==
    LET th == threads[t]
    IN  /\ th.pc = "open"
        /\ Step(t, IF ~validate_doc_id(th.doc_id)
                   THEN [th EXCEPT !.pc = "return", !.exc = "ValueError",
                                   !.started = TRUE]
                   ELSE IF ~path_exists(th.doc_id)
                   THEN [th EXCEPT !.pc = "return", !.started = TRUE,
                                   !.exc = "FileNotFoundError"]
                   ELSE [th EXCEPT !.pc = "body", !.started = TRUE,
                                   !.doc = files[th.doc_id]])
        /\ UNCHANGED <<files, undo_stacks, redo_stacks>>

\* the body of a mutating entry point, on the opened document: it raises
\* (page or index not found, a library error) or reaches the save
Body(t) ==
    LET th == threads[t]
    IN  /\ th.pc = "body"
        /\ \E exc \in {"none", "IndexError", "RuntimeError"} :
            /\ exc = "none" => th.doc < MaxRev
            /\ Step(t, IF exc = "none" THEN [th EXCEPT !.pc = "save"]
                       ELSE [th EXCEPT !.pc = "return", !.exc = exc,
                                       !.doc = NoFile])
        /\ UNCHANGED <<files, undo_stacks, redo_stacks>>

\* doc.save(path, incremental=True) / _save_full: the file now holds the
\* revision after the one this call opened
Save(t) ==
    LET th == threads[t]
    IN  /\ th.pc = "save"
        /\ files' = [files EXCEPT ![th.doc_id] = th.doc + 1]
        /\ Step(t, [th EXCEPT !.pc = "return", !.wrote = TRUE, !.doc = NoFile])
        /\ UNCHANGED <<undo_stacks, redo_stacks>>

\* undo: validate, stack = _undo_stacks.get(doc_id), return False if empty
UndoLookup(t) ==
    LET th == threads[t]
    IN  /\ th.pc = "lookup"
        /\ Step(t, IF ~validate_doc_id(th.doc_id)
                   THEN [th EXCEPT !.pc = "return", !.exc = "ValueError",
                                   !.started = TRUE]
                   ELSE IF Get(undo_stacks, th.doc_id, <<>>) = <<>>
                   THEN [th EXCEPT !.pc = "return", !.started = TRUE]
                   ELSE [th EXCEPT !.pc = "push_redo", !.started = TRUE])
        /\ UNCHANGED <<files, undo_stacks, redo_stacks>>

\* undo: redo_stack.append(path.read_bytes())
UndoPushRedo(t) ==
    LET th == threads[t]
    IN  /\ th.pc = "push_redo"
        /\ redo_stacks' = Put(redo_stacks, th.doc_id,
               Append(Get(redo_stacks, th.doc_id, <<>>), files[th.doc_id]))
        /\ Step(t, [th EXCEPT !.pc = "restore"])
        /\ UNCHANGED <<files, undo_stacks>>

\* undo: path.write_bytes(stack.pop()); pop raises IndexError on a stack
\* that another call has emptied since the lookup
UndoRestore(t) ==
    LET th == threads[t]
        stack == undo_stacks[th.doc_id]
    IN  /\ th.pc = "restore"
        /\ IF stack = <<>>
           THEN /\ Step(t, [th EXCEPT !.pc = "return", !.exc = "IndexError"])
                /\ UNCHANGED <<files, undo_stacks>>
           ELSE /\ files' = [files EXCEPT ![th.doc_id] = stack[Len(stack)]]
                /\ undo_stacks' = [undo_stacks EXCEPT
                       ![th.doc_id] = SubSeq(stack, 1, Len(stack) - 1)]
                /\ Step(t, [th EXCEPT !.pc = "return", !.wrote = TRUE])
        /\ UNCHANGED redo_stacks

\* the call returns or raises; the worker is free again
Return(t) ==
    /\ threads[t].pc = "return"
    /\ Step(t, Idle)
    /\ UNCHANGED <<files, undo_stacks, redo_stacks>>

\* the upload that creates the document the requests are about; its id is
\* new (content hash plus random suffix), so no running request carries it
Upload ==
    /\ \A t \in Workers : threads[t].doc_id # IdA
    /\ SaveUpload(IdA)

InitThreads ==
    /\ files = EmptyDict
    /\ undo_stacks = EmptyDict
    /\ redo_stacks = EmptyDict
    /\ last = NoCall
    /\ threads = [t \in Workers |-> Idle]
    /\ fn = Null

NextThreads ==
    \/ Upload
    \/ \E t \in Workers, op \in ThreadOps, doc_id \in ThreadDocIds :
        Dispatch(t, op, doc_id)
    \/ \E t \in Workers :
        \/ SnapshotRead(t)
        \/ SnapshotPush(t)
        \/ OpenDoc(t)
        \/ Body(t)
        \/ Save(t)
        \/ UndoLookup(t)
        \/ UndoPushRedo(t)
        \/ UndoRestore(t)
        \/ Return(t)

SpecThreads == InitThreads /\ [][NextThreads]_vars

(***************************************************************************)
(* stream_editor.py.  A byte string is a sequence of byte values; a text   *)
(* is a sequence of code points.                                           *)
(***************************************************************************)
MaxRawLen == 4     \* bytes of a content stream handed to the tokenizer
MaxTextLen == 3    \* characters of a text handed to the string codec

NUL == 0
TAB == 9
LF == 10
FF == 12
CR == 13
SP == 32
PERCENT == 37
LPAREN == 40
RPAREN == 41
SLASH == 47
LT == 60
GT == 62
LBRACKET == 91
BACKSLASH == 92
RBRACKET == 93

Whitespace == {SP, TAB, CR, LF, NUL, FF}
Delimiters == Whitespace \cup
              {LPAREN, RPAREN, LT, GT, LBRACKET, RBRACKET, SLASH, PERCENT}

Min(a, b) == IF a < b THEN a ELSE b

\* raw[start:i] with 1-based positions: from start up to, not including, i;
\* a position past the end is cut to the end
Slice(raw, start, i) == SubSeq(raw, start, Min(i - 1, Len(raw)))

\* while i < n and raw[i] not in (CR, LF): i += 1
RECURSIVE skip_comment(_, _)
skip_comment(raw, i) ==
    IF i <= Len(raw) /\ raw[i] \notin {CR, LF}
    THEN skip_comment(raw, i + 1)
    ELSE i

\* the loop over a literal string, entered after its opening parenthesis
RECURSIVE skip_literal(_, _, _)
skip_literal(raw, i, depth) ==
    IF i <= Len(raw) /\ depth > 0
    THEN IF raw[i] = BACKSLASH THEN skip_literal(raw, i + 2, depth)
         ELSE IF raw[i] = LPAREN THEN skip_literal(raw, i + 1, depth + 1)
         ELSE IF raw[i] = RPAREN THEN skip_literal(raw, i + 1, depth - 1)
         ELSE skip_literal(raw, i + 1, depth)
    ELSE i

\* while i < n and raw[i] != ">": i += 1
RECURSIVE skip_hex(_, _)
skip_hex(raw, i) ==
    IF i <= Len(raw) /\ raw[i] # GT THEN skip_hex(raw, i + 1) ELSE i

\* "<" that does not open "<<"
opens_hex(raw, i) ==
    raw[i] = LT /\ (i + 1 > Len(raw) \/ raw[i + 1] # LT)

\* the loop over an array, entered after its opening bracket
RECURSIVE skip_array(_, _, _)
skip_array(raw, i, depth) ==
    IF i <= Len(raw) /\ depth > 0
    THEN IF raw[i] = LPAREN
         THEN skip_array(raw, skip_literal(raw, i + 1, 1), depth)
         ELSE IF opens_hex(raw, i)
         THEN skip_array(raw, skip_hex(raw, i + 1) + 1, depth)
         ELSE IF raw[i] = LBRACKET THEN skip_array(raw, i + 1, depth + 1)
         ELSE IF raw[i] = RBRACKET THEN skip_array(raw, i + 1, depth - 1)
         ELSE skip_array(raw, i + 1, depth)
    ELSE i

\* while i < n and raw[i] not in (whitespace and delimiters): i += 1
RECURSIVE skip_regular(_, _)
skip_regular(raw, i) ==
    IF i <= Len(raw) /\ raw[i] \notin Delimiters
    THEN skip_regular(raw, i + 1)
    ELSE i

\* the main loop of _tokenize_stream from position i on.  hangs: an
\* iteration ended with i where it started and nothing appended, so the loop
\* repeats that iteration for ever
RECURSIVE tokenize_from(_, _, _)
tokenize_from(raw, i, tokens) ==
    IF i > Len(raw) THEN [tokens |-> tokens, hangs |-> FALSE]
    ELSE IF raw[i] \in Whitespace THEN tokenize_from(raw, i + 1, tokens)
    ELSE IF raw[i] = PERCENT
    THEN tokenize_from(raw, skip_comment(raw, i), tokens)
    ELSE IF raw[i] = LPAREN
    THEN LET j == skip_literal(raw, i + 1, 1)
         IN  tokenize_from(raw, j, Append(tokens, Slice(raw, i, j)))
    ELSE IF opens_hex(raw, i)
    THEN LET j == skip_hex(raw, i + 1) + 1
         IN  tokenize_from(raw, j, Append(tokens, Slice(raw, i, j)))
    ELSE IF raw[i] = LT /\ i + 1 <= Len(raw) /\ raw[i + 1] = LT
    THEN tokenize_from(raw, i + 2, Append(tokens, <<LT, LT>>))
    ELSE IF raw[i] = GT /\ i + 1 <= Len(raw) /\ raw[i + 1] = GT
    THEN tokenize_from(raw, i + 2, Append(tokens, <<GT, GT>>))
    ELSE IF raw[i] = LBRACKET
    THEN LET j == skip_array(raw, i + 1, 1)
         IN  tokenize_from(raw, j, Append(tokens, Slice(raw, i, j)))
    ELSE LET j == skip_regular(raw, i)
             k == IF j = i /\ raw[i] = SLASH
                  THEN skip_regular(raw, i + 1)
                  ELSE j
         IN  IF k > i
             THEN tokenize_from(raw, k, Append(tokens, Slice(raw, i, k)))
             ELSE [tokens |-> tokens, hangs |-> TRUE]

tokenize_stream(raw) == tokenize_from(raw, 1, <<>>)

\* faulty variant of join_tokens: the tokens put end to end
RECURSIVE join_tokens_unspaced(_)
join_tokens_unspaced(tokens) ==
    IF tokens = <<>> THEN <<>>
    ELSE tokens[1] \o join_tokens_unspaced(Tail(tokens))

\* b" ".join(tokens)
RECURSIVE join_tokens(_)
join_tokens(tokens) ==
    IF tokens = <<>> THEN <<>>
    ELSE IF Len(tokens) = 1 THEN tokens[1]
    ELSE tokens[1] \o <<SP>> \o join_tokens(Tail(tokens))

\* sequences over S of length 0..len
SeqsUpTo(S, len) == UNION {[1..k -> S] : k \in 0..len}

\* bytes of the streams tokenized: every delimiter, the escape character, a
\* line end (which is also white space) and a regular character
StreamBytes == {LPAREN, RPAREN, BACKSLASH, LT, GT, LBRACKET, RBRACKET,
                SLASH, PERCENT, LF, 97}

\* a stream is tokenized
Tokenize ==
    /\ fn.pc = "input"
    /\ LET out == tokenize_stream(fn.raw)
       IN  fn' = [fn EXCEPT !.pc = IF out.hangs THEN "hung" ELSE "tokenized",
                            !.tokens = out.tokens]
    /\ UNCHANGED <<files, undo_stacks, redo_stacks, last, threads>>

\* try_direct_edit: the tokens are joined into the new stream, which is what
\* the next edit of the page tokenizes
JoinAndTokenize ==
    /\ fn.pc = "tokenized"
    /\ LET out == tokenize_stream(join_tokens(fn.tokens))
       IN  fn' = [fn EXCEPT !.pc = IF out.hangs THEN "rehung" ELSE "retokenized",
                            !.again = out.tokens]
    /\ UNCHANGED <<files, undo_stacks, redo_stacks, last, threads>>

InitTokenizer ==
    /\ files = EmptyDict
    /\ undo_stacks = EmptyDict
    /\ redo_stacks = EmptyDict
    /\ last = NoCall
    /\ threads = EmptyDict
    /\ fn \in {[pc |-> "input", raw |-> raw, tokens |-> <<>>, again |-> <<>>] :
                  raw \in SeqsUpTo(StreamBytes, MaxRawLen)}

NextTokenizer ==
    \/ Tokenize
    \/ JoinAndTokenize

SpecTokenizer == InitTokenizer /\ [][NextTokenizer]_vars

(***************************************************************************)
(* The string codec of simple fonts                                        *)
(***************************************************************************)
\* _ESCAPE_MAP: the character after a backslash -> the byte it stands for
ESCAPE_MAP ==
    (110 :> LF) @@ (114 :> CR) @@ (116 :> TAB) @@ (98 :> 8) @@ (102 :> FF)
    @@ (BACKSLASH :> BACKSLASH) @@ (LPAREN :> LPAREN) @@ (RPAREN :> RPAREN)

\* Python's mac-roman codec, code point -> byte, for code points over 127:
\* the rows of the characters the model uses (e-acute, E-grave, euro sign)
mac_roman ==
    (233 :> 142) @@ (200 :> 233) @@ (8364 :> 219)

codec_of(encoding) ==
    IF encoding = "MacRomanEncoding" THEN "mac-roman" ELSE "latin-1"

\* ch.encode(codec) does not raise
encodable(ch, codec) ==
    IF codec = "mac-roman" THEN ch < 128 \/ ch \in DOMAIN mac_roman
    ELSE ch < 256

encode_char(ch, codec) ==
    IF codec = "mac-roman" /\ ch >= 128 THEN mac_roman[ch] ELSE ch

\* bytes([b]).decode(codec)
decode_byte(b, codec) ==
    IF codec = "mac-roman" /\ b >= 128
    THEN CHOOSE ch \in DOMAIN mac_roman : mac_roman[ch] = b
    ELSE b

\* faulty variant of escape_byte: the backslash is written as it is
escape_byte_backslash_bare(b) ==
    IF b = LPAREN THEN <<BACKSLASH, LPAREN>>
    ELSE IF b = RPAREN THEN <<BACKSLASH, RPAREN>>
    ELSE IF b = CR THEN <<BACKSLASH, 114>>
    ELSE IF b = LF THEN <<BACKSLASH, 110>>
    ELSE <<b>>

\* _encode_pdf_string, the escape of one byte
escape_byte(b) ==
    IF b = BACKSLASH THEN <<BACKSLASH, BACKSLASH>>
    ELSE IF b = LPAREN THEN <<BACKSLASH, LPAREN>>
    ELSE IF b = RPAREN THEN <<BACKSLASH, RPAREN>>
    ELSE IF b = CR THEN <<BACKSLASH, 114>>
    ELSE IF b = LF THEN <<BACKSLASH, 110>>
    ELSE <<b>>

RECURSIVE escape_bytes(_)
escape_bytes(raw) ==
    IF raw = <<>> THEN <<>>
    ELSE escape_byte(Head(raw)) \o escape_bytes(Tail(raw))

\* _encode_pdf_string: ValueError when a character has no byte in the codec
encode_pdf_string(text, encoding) ==
    LET codec == codec_of(encoding)
    IN  IF \E k \in 1..Len(text) : ~encodable(text[k], codec)
        THEN [exc |-> "ValueError", token |-> <<>>]
        ELSE [exc |-> "none",
              token |-> <<LPAREN>>
                        \o escape_bytes([k \in 1..Len(text) |->
                                            encode_char(text[k], codec)])
                        \o <<RPAREN>>]

is_octal(b) == 48 <= b /\ b <= 55

\* _decode_pdf_string, the loop over the escape sequences of a literal string
RECURSIVE unescape(_, _, _)
unescape(raw, i, result) ==
    IF i > Len(raw) THEN result
    ELSE IF raw[i] # BACKSLASH THEN unescape(raw, i + 1, Append(result, raw[i]))
    ELSE IF i + 1 > Len(raw) THEN result
    ELSE LET nxt == raw[i + 1]
             two == i + 2 <= Len(raw) /\ is_octal(raw[i + 2])
             three == two /\ i + 3 <= Len(raw) /\ is_octal(raw[i + 3])
         IN  IF nxt \in DOMAIN ESCAPE_MAP
             THEN unescape(raw, i + 2, Append(result, ESCAPE_MAP[nxt]))
             ELSE IF is_octal(nxt)
             THEN IF three
                  THEN unescape(raw, i + 4, Append(result,
                           ((nxt - 48) * 64 + (raw[i + 2] - 48) * 8
                            + (raw[i + 3] - 48)) % 256))
                  ELSE IF two
                  THEN unescape(raw, i + 3, Append(result,
                           (nxt - 48) * 8 + (raw[i + 2] - 48)))
                  ELSE unescape(raw, i + 2, Append(result, nxt - 48))
             ELSE IF nxt \in {CR, LF}
             THEN IF nxt = CR /\ i + 2 <= Len(raw) /\ raw[i + 2] = LF
                  THEN unescape(raw, i + 3, result)
                  ELSE unescape(raw, i + 2, result)
             ELSE unescape(raw, i + 2, Append(result, nxt))

\* value of a hexadecimal digit, 16 for any other byte
hex_value(b) ==
    IF 48 <= b /\ b <= 57 THEN b - 48
    ELSE IF 65 <= b /\ b <= 70 THEN b - 55
    ELSE IF 97 <= b /\ b <= 102 THEN b - 87
    ELSE 16

\* _decode_pdf_string, the hex branch: blanks and line ends removed, an odd
\* digit count padded with "0", bytes.fromhex of the rest
hex_bytes(token) ==
    LET inner == SelectSeq(SubSeq(token, 2, Len(token) - 1),
                           LAMBDA b : b \notin {SP, LF, CR})
        digits == IF Len(inner) % 2 = 1 THEN Append(inner, 48) ELSE inner
    IN  IF \E k \in 1..Len(digits) : hex_value(digits[k]) = 16
        THEN [exc |-> "ValueError", raw |-> <<>>]
        ELSE [exc |-> "none",
              raw |-> [k \in 1..(Len(digits) \div 2) |->
                          16 * hex_value(digits[2 * k - 1])
                          + hex_value(digits[2 * k])]]

\* _decode_pdf_string
decode_pdf_string(token, encoding) ==
    LET codec == codec_of(encoding)
        decoded(raw) == [k \in 1..Len(raw) |-> decode_byte(raw[k], codec)]
    IN  IF token # <<>> /\ token[1] = LPAREN /\ token[Len(token)] = RPAREN
        THEN [exc |-> "none",
              text |-> decoded(unescape(SubSeq(token, 2, Len(token) - 1), 1, <<>>))]
        ELSE IF token # <<>> /\ token[1] = LT /\ token[Len(token)] = GT
        THEN IF hex_bytes(token).exc = "none"
             THEN [exc |-> "none", text |-> decoded(hex_bytes(token).raw)]
             ELSE [exc |-> "ValueError", text |-> <<>>]
        ELSE [exc |-> "none", text |-> <<>>]

\* characters of the texts encoded: the five the encoder escapes, the letter
\* and the digit that read as an escape after a backslash, one character per
\* way the two codecs differ (e-acute, E-grave, euro sign), and one that
\* neither codec holds (A-macron)
TextChars == {BACKSLASH, LPAREN, RPAREN, CR, LF, 110, 49, 233, 200, 8364, 256}
Encodings == {"WinAnsiEncoding", "MacRomanEncoding"}

\* a text is encoded for a simple font
Encode ==
    /\ fn.pc = "text"
    /\ LET out == encode_pdf_string(fn.text, fn.encoding)
       IN  fn' = [fn EXCEPT !.pc = IF out.exc = "none" THEN "encoded" ELSE "raised",
                            !.token = out.token]
    /\ UNCHANGED <<files, undo_stacks, redo_stacks, last, threads>>

\* the token is decoded with the same font encoding
Decode ==
    /\ fn.pc = "encoded"
    /\ LET out == decode_pdf_string(fn.token, fn.encoding)
       IN  fn' = [fn EXCEPT !.pc = IF out.exc = "none" THEN "decoded" ELSE "raised",
                            !.decoded = out.text]
    /\ UNCHANGED <<files, undo_stacks, redo_stacks, last, threads>>

InitCodec ==
    /\ files = EmptyDict
    /\ undo_stacks = EmptyDict
    /\ redo_stacks = EmptyDict
    /\ last = NoCall
    /\ threads = EmptyDict
    /\ fn \in {[pc |-> "text", text |-> text, encoding |-> encoding,
                token |-> <<>>, decoded |-> <<>>] :
                  text \in SeqsUpTo(TextChars, MaxTextLen),
                  encoding \in Encodings}

NextCodec ==
    \/ Encode
    \/ Decode

SpecCodec == InitCodec /\ [][NextCodec]_vars

(***************************************************************************)
(* ToUnicode CMaps.  A hex string <...> of the CMap is the sequence of its  *)
(* digits' values; a dict is the sequence of its (key, value) pairs in      *)
(* insertion order.  The CMap stream is given as the entries the section   *)
(* and entry patterns find in it.                                          *)
(***************************************************************************)
MaxCMapEntries == 2   \* entries of a ToUnicode CMap
MaxCMapTextLen == 2   \* characters of a text encoded through a CMap

NBSP == 160
SURROGATE_LO == 55296   \* U+D800
SURROGATE_MID == 56320  \* U+DC00
SURROGATE_HI == 57343   \* U+DFFF

\* d[k] = v
dict_set(d, k, v) ==
    IF \E n \in 1..Len(d) : d[n][1] = k
    THEN [n \in 1..Len(d) |-> IF d[n][1] = k THEN <<k, v>> ELSE d[n]]
    ELSE Append(d, <<k, v>>)

dict_has(d, k) == \E n \in 1..Len(d) : d[n][1] = k

\* d[k] for a key the dict holds
dict_get(d, k) == d[CHOOSE n \in 1..Len(d) : d[n][1] = k][2]

\* int(h, 16)
RECURSIVE hex_int(_)
hex_int(h) ==
    IF h = <<>> THEN 0
    ELSE 16 * hex_int(SubSeq(h, 1, Len(h) - 1)) + h[Len(h)]

\* the UTF-16 code units of 4 digits each, decoded from position n on
RECURSIVE utf16_decode(_, _)
utf16_decode(units, n) ==
    IF n > Len(units) THEN [ok |-> TRUE, str |-> <<>>]
    ELSE IF units[n] < SURROGATE_LO \/ units[n] > SURROGATE_HI
    THEN LET rest == utf16_decode(units, n + 1)
         IN  [ok |-> rest.ok, str |-> <<units[n]>> \o rest.str]
    ELSE IF /\ units[n] < SURROGATE_MID
            /\ n + 1 <= Len(units)
            /\ units[n + 1] >= SURROGATE_MID /\ units[n + 1] <= SURROGATE_HI
    THEN LET rest == utf16_decode(units, n + 2)
         IN  [ok |-> rest.ok,
              str |-> <<65536 + (units[n] - SURROGATE_LO) * 1024
                              + (units[n + 1] - SURROGATE_MID)>> \o rest.str]
    ELSE [ok |-> FALSE, str |-> <<>>]

\* _hex_to_unicode: bytes.fromhex(h).decode("utf-16-be"); not ok when either
\* raises (an odd number of digits, an odd number of bytes, a lone surrogate)
hex_to_unicode(h) ==
    IF Len(h) % 4 # 0 THEN [ok |-> FALSE, str |-> <<>>]
    ELSE utf16_decode([n \in 1..(Len(h) \div 4) |->
                          hex_int(SubSeq(h, 4 * n - 3, 4 * n))], 1)

\* one <src> <dst> pair of a bfchar section
bfchar_entry(forward, e) ==
    LET uni == hex_to_unicode(e.dst)
    IN  IF uni.ok THEN dict_set(forward, hex_int(e.src), uni.str) ELSE forward

\* one <start> <end> [<u1> <u2> ...] of a bfrange section, from value n on
RECURSIVE array_entry(_, _, _)
array_entry(forward, e, n) ==
    IF n > Len(e.vals) \/ hex_int(e.src) + n - 1 > hex_int(e.end) THEN forward
    ELSE LET uni == hex_to_unicode(e.vals[n])
         IN  array_entry(IF uni.ok
                         THEN dict_set(forward, hex_int(e.src) + n - 1, uni.str)
                         ELSE forward,
                         e, n + 1)

\* for code in range(start, end + 1): forward[code] = chr(uni_start + ...)
RECURSIVE fill_range(_, _, _, _)
fill_range(forward, code, end, uni) ==
    IF code > end THEN forward
    ELSE fill_range(dict_set(forward, code, <<uni>>), code + 1, end, uni + 1)

\* one <start> <end> <unicode_start> of a bfrange section
simple_entry(forward, e) ==
    LET uni == hex_to_unicode(e.dst)
    IN  IF ~uni.ok \/ Len(uni.str) # 1 THEN forward
        ELSE fill_range(forward, hex_int(e.src), hex_int(e.end), uni.str[1])

\* the entries of one form, in stream order
RECURSIVE apply_entries(_, _, _)
apply_entries(forward, entries, form) ==
    IF entries = <<>> THEN forward
    ELSE LET e == Head(entries)
             next == IF e.form # form THEN forward
                     ELSE IF form = "bfchar" THEN bfchar_entry(forward, e)
                     ELSE IF form = "array" THEN array_entry(forward, e, 1)
                     ELSE simple_entry(forward, e)
         IN  apply_entries(next, Tail(entries), form)

\* max(src_hex_lengths), 0 for none
RECURSIVE max_hex_len(_)
max_hex_len(entries) ==
    IF entries = <<>> THEN 0
    ELSE LET rest == max_hex_len(Tail(entries))
         IN  IF Len(Head(entries).src) > rest THEN Len(Head(entries).src) ELSE rest

\* bytes_per_code = max(1, (max_hex_len + 1) // 2), 1 without source codes
bytes_per_code_of(entries) ==
    IF entries = <<>> THEN 1
    ELSE IF (max_hex_len(entries) + 1) \div 2 < 1 THEN 1
    ELSE (max_hex_len(entries) + 1) \div 2

\* _parse_tounicode_cmap: the bfchar pairs, then the array ranges, then the
\* simple ranges
parse_tounicode_cmap(entries) ==
    [forward |-> apply_entries(apply_entries(apply_entries(
                     <<>>, entries, "bfchar"), entries, "array"), entries, "simple"),
     bytes_per_code |-> bytes_per_code_of(entries)]

\* a faulty variant of _build_reverse_cmap: the last code of a character wins
RECURSIVE build_reverse_cmap_last_wins(_, _)
build_reverse_cmap_last_wins(forward, reverse) ==
    IF forward = <<>> THEN reverse
    ELSE build_reverse_cmap_last_wins(Tail(forward),
            IF Len(Head(forward)[2]) = 1
            THEN dict_set(reverse, Head(forward)[2][1], Head(forward)[1])
            ELSE reverse)

\* _build_reverse_cmap: if len(uni) == 1 and uni not in reverse
RECURSIVE build_reverse_cmap(_, _)
build_reverse_cmap(forward, reverse) ==
    IF forward = <<>> THEN reverse
    ELSE build_reverse_cmap(Tail(forward),
            IF Len(Head(forward)[2]) = 1 /\ ~dict_has(reverse, Head(forward)[2][1])
            THEN dict_set(reverse, Head(forward)[2][1], Head(forward)[1])
            ELSE reverse)

\* _CHAR_EQUIVALENTS
CHAR_EQUIVALENTS ==
    (SP :> <<NBSP>>) @@ (NBSP :> <<SP>>)
    @@ (8216 :> <<39>>) @@ (8217 :> <<39>>) @@ (39 :> <<8217, 8216>>)
    @@ (8220 :> <<34>>) @@ (8221 :> <<34>>) @@ (34 :> <<8221, 8220>>)
    @@ (8211 :> <<45>>) @@ (8212 :> <<45>>) @@ (45 :> <<8211, 8212>>)

equivalents_of(ch) ==
    IF ch \in DOMAIN CHAR_EQUIVALENTS THEN CHAR_EQUIVALENTS[ch] ELSE <<>>

\* the character whose code stands for ch: ch itself when the reverse map
\* holds it, else the first equivalent the map holds; <<>> for none
stand_in(ch, reverse) ==
    IF dict_has(reverse, ch) THEN <<ch>>
    ELSE LET alts == SelectSeq(equivalents_of(ch), LAMBDA alt : dict_has(reverse, alt))
         IN  IF alts = <<>> THEN <<>> ELSE <<Head(alts)>>

\* 256 ** n
RECURSIVE pow256(_)
pow256(n) == IF n = 0 THEN 1 ELSE 256 * pow256(n - 1)

\* faulty variant of to_bytes: the low byte first
to_bytes_little(code, n) ==
    [k \in 1..n |-> (code \div pow256(k - 1)) % 256]

\* code.to_bytes(n, "big"), for a code below 256 ** n
to_bytes(code, n) ==
    [k \in 1..n |-> (code \div pow256(n - k)) % 256]

\* int.from_bytes(raw, "big")
RECURSIVE from_bytes(_)
from_bytes(raw) ==
    IF raw = <<>> THEN 0
    ELSE 256 * from_bytes(SubSeq(raw, 1, Len(raw) - 1)) + raw[Len(raw)]

\* raw.hex().upper(): two digits per byte
hex_digit_byte(d) == IF d < 10 THEN 48 + d ELSE 55 + d

RECURSIVE hex_upper(_)
hex_upper(raw) ==
    IF raw = <<>> THEN <<>>
    ELSE <<hex_digit_byte(Head(raw) \div 16), hex_digit_byte(Head(raw) % 16)>>
         \o hex_upper(Tail(raw))

\* _encode_with_cmap, the loop over the characters: ValueError at the first
\* character without a code, OverflowError at the first code that does not
\* fit bytes_per_code bytes
RECURSIVE encode_codes(_, _, _)
encode_codes(text, reverse, bytes_per_code) ==
    IF text = <<>> THEN [exc |-> "none", raw |-> <<>>]
    ELSE IF stand_in(Head(text), reverse) = <<>>
    THEN [exc |-> "ValueError", raw |-> <<>>]
    ELSE IF dict_get(reverse, stand_in(Head(text), reverse)[1])
                >= pow256(bytes_per_code)
    THEN [exc |-> "OverflowError", raw |-> <<>>]
    ELSE LET rest == encode_codes(Tail(text), reverse, bytes_per_code)
         IN  IF rest.exc # "none" THEN rest
             ELSE [exc |-> "none",
                   raw |-> to_bytes(dict_get(reverse,
                                             stand_in(Head(text), reverse)[1]),
                                    bytes_per_code) \o rest.raw]

\* _encode_with_cmap: a hex string for codes of several bytes, an escaped
\* literal string for codes of one byte
encode_with_cmap(text, reverse, bytes_per_code) ==
    LET out == encode_codes(text, reverse, bytes_per_code)
    IN  IF out.exc # "none" THEN [exc |-> out.exc, token |-> <<>>]
        ELSE [exc |-> "none",
              token |-> IF bytes_per_code > 1
                        THEN <<LT>> \o hex_upper(out.raw) \o <<GT>>
                        ELSE <<LPAREN>> \o escape_bytes(out.raw) \o <<RPAREN>>]

\* _decode_with_cmap, the loop over the codes from byte i on
RECURSIVE decode_codes(_, _, _, _)
decode_codes(raw, i, forward, bytes_per_code) ==
    IF i + bytes_per_code - 1 > Len(raw) THEN <<>>
    ELSE LET code == from_bytes(SubSeq(raw, i, i + bytes_per_code - 1))
             chars == IF dict_has(forward, code) THEN dict_get(forward, code)
                      ELSE IF bytes_per_code = 1 THEN <<code>>
                      ELSE <<>>
         IN  chars \o decode_codes(raw, i + bytes_per_code, forward, bytes_per_code)

\* _decode_with_cmap
decode_with_cmap(token, forward, bytes_per_code) ==
    IF token # <<>> /\ token[1] = LPAREN /\ token[Len(token)] = RPAREN
    THEN [exc |-> "none",
          text |-> decode_codes(unescape(SubSeq(token, 2, Len(token) - 1), 1, <<>>),
                                1, forward, bytes_per_code)]
    ELSE IF token # <<>> /\ token[1] = LT /\ token[Len(token)] = GT
    THEN IF hex_bytes(token).exc = "none"
         THEN [exc |-> "none",
               text |-> decode_codes(hex_bytes(token).raw, 1, forward,
                                     bytes_per_code)]
         ELSE [exc |-> "ValueError", text |-> <<>>]
    ELSE [exc |-> "none", text |-> <<>>]

\* entries of the CMaps parsed: one-byte, two-byte and three-byte codes, a
\* code that needs an escape, a multi-character value, a value that does not
\* decode, a code given twice, ranges of both forms, a range that runs past
\* one byte, a range that gives one character to two codes and two
\* characters to a third
CMapEntries ==
    { [form |-> "bfchar", src |-> <<4, 1>>, dst |-> <<0, 0, 4, 1>>],
      [form |-> "bfchar", src |-> <<4, 1>>, dst |-> <<0, 0, 4, 2>>],
      [form |-> "bfchar", src |-> <<5, 12>>, dst |-> <<0, 0, 4, 2>>],
      [form |-> "bfchar", src |-> <<10, 0>>, dst |-> <<0, 0, 10, 0>>],
      [form |-> "bfchar", src |-> <<0, 0, 0, 3>>, dst |-> <<0, 0, 10, 0>>],
      [form |-> "bfchar", src |-> <<4, 2>>, dst |-> <<0, 0, 6, 6, 0, 0, 6, 9>>],
      [form |-> "bfchar", src |-> <<0, 0, 0, 0, 4, 1>>, dst |-> <<0, 0, 4, 1>>],
      [form |-> "bfchar", src |-> <<0, 0, 0, 4, 3>>, dst |-> <<13, 8, 0, 0>>],
      [form |-> "simple", src |-> <<4, 1>>, end |-> <<4, 2>>,
       dst |-> <<0, 0, 4, 1>>],
      [form |-> "simple", src |-> <<15, 15>>, end |-> <<1, 0, 0>>,
       dst |-> <<0, 0, 4, 1>>],
      [form |-> "array", src |-> <<0, 0, 4, 1>>, end |-> <<0, 0, 4, 2>>,
       vals |-> << <<0, 0, 4, 2>>, <<0, 0, 2, 0>>, <<0, 0, 4, 1>> >>],
      [form |-> "array", src |-> <<4, 3>>, end |-> <<4, 5>>,
       vals |-> << <<0, 0, 4, 2>>, <<0, 0, 4, 2>>,
                   <<0, 0, 6, 6, 0, 0, 6, 9>> >>] }

\* characters of the texts encoded through a CMap
CMapTextChars == {65, 66, SP, NBSP}

\* _get_tounicode_maps: the CMap stream is parsed and the reverse map built;
\* a font whose forward or reverse map is empty is no CMap font
ParseCMap ==
    /\ fn.pc = "cmap"
    /\ LET out == parse_tounicode_cmap(fn.entries)
           reverse == build_reverse_cmap(out.forward, <<>>)
       IN  fn' = [fn EXCEPT !.pc = IF out.forward = <<>> \/ reverse = <<>>
                                   THEN "no_cmap" ELSE "parsed",
                            !.forward = out.forward,
                            !.reverse = reverse,
                            !.bytes_per_code = out.bytes_per_code]
    /\ UNCHANGED <<files, undo_stacks, redo_stacks, last, threads>>

\* the text is encoded with the reverse map
EncodeWithCMap ==
    /\ fn.pc = "parsed"
    /\ LET out == encode_with_cmap(fn.text, fn.reverse, fn.bytes_per_code)
       IN  fn' = [fn EXCEPT !.pc = IF out.exc = "none" THEN "encoded" ELSE "raised",
                            !.exc = out.exc,
                            !.token = out.token]
    /\ UNCHANGED <<files, undo_stacks, redo_stacks, last, threads>>

\* the token is decoded with the forward map
DecodeWithCMap ==
    /\ fn.pc = "encoded"
    /\ LET out == decode_with_cmap(fn.token, fn.forward, fn.bytes_per_code)
       IN  fn' = [fn EXCEPT !.pc = IF out.exc = "none" THEN "decoded" ELSE "raised",
                            !.exc = out.exc,
                            !.decoded = out.text]
    /\ UNCHANGED <<files, undo_stacks, redo_stacks, last, threads>>

InitCMap ==
    /\ files = EmptyDict
    /\ undo_stacks = EmptyDict
    /\ redo_stacks = EmptyDict
    /\ last = NoCall
    /\ threads = EmptyDict
    /\ fn \in {[pc |-> "cmap", entries |-> entries, text |-> text,
                forward |-> <<>>, reverse |-> <<>>, bytes_per_code |-> 1,
                exc |-> "none", token |-> <<>>, decoded |-> <<>>] :
                  entries \in SeqsUpTo(CMapEntries, MaxCMapEntries),
                  text \in SeqsUpTo(CMapTextChars, MaxCMapTextLen)}

NextCMap ==
    \/ ParseCMap
    \/ EncodeWithCMap
    \/ DecodeWithCMap

SpecCMap == InitCMap /\ [][NextCMap]_vars

(***************************************************************************)
(* text_service.py: logical spans.  A page is the sequence of the blocks   *)
(* of page.get_text("dict"); a block has a type and lines; a line has a     *)
(* bbox and spans; a span has a text (code points), a font and a size.  A  *)
(* bbox is <<x0, y0, x1, y1>>.                                             *)
(***************************************************************************)
MaxBlockLines == 3      \* lines of the block that is split
MaxPageBlocks == 2      \* blocks of the page whose items are collected
MaxPageBlockLines == 1  \* lines of each of these blocks

BULLET == 8226
HYPHEN == 45

None == [none |-> TRUE]

\* F(x), with x evaluated once and F applied to its value
Bind(x, F(_)) == CHOOSE r \in {F(v) : v \in {x}} : TRUE

\* characters str.strip() and \s take for white space, of those in the model
SpaceChars == {TAB, LF, FF, CR, SP, NBSP}

\* text.strip()
RECURSIVE lstrip(_)
lstrip(text) ==
    IF text # <<>> /\ Head(text) \in SpaceChars THEN lstrip(Tail(text)) ELSE text

is_blank(text) == lstrip(text) = <<>>

\* "\n".join(texts), sep.join(texts)
RECURSIVE join_with(_, _)
join_with(sep, texts) ==
    IF texts = <<>> THEN <<>>
    ELSE IF Len(texts) = 1 THEN texts[1]
    ELSE texts[1] \o sep \o join_with(sep, Tail(texts))

is_digit(ch) == 48 <= ch /\ ch <= 57
is_ascii_letter(ch) == (65 <= ch /\ ch <= 90) \/ (97 <= ch /\ ch <= 122)

RECURSIVE skip_digits(_)
skip_digits(text) ==
    IF text # <<>> /\ is_digit(Head(text)) THEN skip_digits(Tail(text)) ELSE text

\* "." or ")" and then white space
closes_marker(text) ==
    Len(text) >= 2 /\ text[1] \in {46, RPAREN} /\ text[2] \in SpaceChars

\* _BULLET_RE.match(text)
BULLET_RE_match(text) ==
    LET body == lstrip(text)
    IN  /\ body # <<>>
        /\ \/ body[1] \in {BULLET, 8227, 9702, 8259, 8729, 183,
                           9642, 9656, 9658, 9675, 9679}
           \/ 57344 <= body[1] /\ body[1] <= 63743
           \/ /\ body[1] \in {8211, 8212, HYPHEN, 42}
              /\ Len(body) >= 2 /\ body[2] \in SpaceChars
           \/ is_digit(body[1]) /\ closes_marker(skip_digits(body))
           \/ is_ascii_letter(body[1]) /\ closes_marker(Tail(body))

\* fonts whose lower-cased name holds one of SYMBOL_FONT_HINTS, of those in
\* the model
SymbolFonts == {"Symbol"}

\* _line_is_bullet: decided by the first span that is not blank
RECURSIVE spans_are_bullet(_)
spans_are_bullet(spans) ==
    IF spans = <<>> THEN FALSE
    ELSE IF is_blank(Head(spans).text) THEN spans_are_bullet(Tail(spans))
    ELSE Head(spans).font \in SymbolFonts \/ BULLET_RE_match(Head(spans).text)

line_is_bullet(line) == spans_are_bullet(line.spans)

\* the first span of a line that is not blank, None for none
first_span_of(spans) ==
    LET shown == SelectSeq(spans, LAMBDA span : ~is_blank(span.text))
    IN  IF shown = <<>> THEN None ELSE Head(shown)

line_text(line) ==
    join_with(<<>>, [k \in 1..Len(line.spans) |-> line.spans[k].text])

\* _collect_block_lines, first loop: the lines that are not blank
raw_lines_of(block) ==
    LET made == [k \in 1..Len(block.lines) |->
                    [text |-> line_text(block.lines[k]),
                     bbox |-> block.lines[k].bbox,
                     is_bullet |-> line_is_bullet(block.lines[k]),
                     first_span |-> first_span_of(block.lines[k].spans)]]
    IN  SelectSeq(made, LAMBDA line : ~is_blank(line.text))

Min2(a, b) == IF a < b THEN a ELSE b
Max2(a, b) == IF a > b THEN a ELSE b

\* min_h > 0 and y_overlap > 0.5 * min_h
same_row(prev_bbox, bbox) ==
    LET min_h == Min2(prev_bbox[4] - prev_bbox[2], bbox[4] - bbox[2])
        y_overlap == Min2(prev_bbox[4], bbox[4]) - Max2(prev_bbox[2], bbox[2])
    IN  min_h > 0 /\ 2 * y_overlap > min_h

merged_bbox(a, b) ==
    <<Min2(a[1], b[1]), Min2(a[2], b[2]), Max2(a[3], b[3]), Max2(a[4], b[4])>>

\* "" if prev_text.endswith(" ") or text.startswith(" ") else " "
separator(prev_text, text) ==
    IF \/ prev_text # <<>> /\ prev_text[Len(prev_text)] = SP
       \/ text # <<>> /\ text[1] = SP
    THEN <<>> ELSE <<SP>>

\* _collect_block_lines, second loop: a line on the row of the line before it
\* is merged into that line
RECURSIVE merge_rows(_, _)
merge_rows(lines, raw_lines) ==
    IF raw_lines = <<>> THEN lines
    ELSE LET prev == lines[Len(lines)]
             line == Head(raw_lines)
         IN  IF same_row(prev.bbox, line.bbox)
             THEN merge_rows(
                      [lines EXCEPT ![Len(lines)] =
                          [text |-> prev.text \o separator(prev.text, line.text)
                                              \o line.text,
                           bbox |-> merged_bbox(prev.bbox, line.bbox),
                           is_bullet |-> prev.is_bullet,
                           first_span |-> prev.first_span]],
                      Tail(raw_lines))
             ELSE merge_rows(Append(lines, line), Tail(raw_lines))

\* _collect_block_lines
collect_block_lines(block) ==
    LET raw_lines == raw_lines_of(block)
    IN  IF Len(raw_lines) <= 1 THEN raw_lines
        ELSE merge_rows(<<Head(raw_lines)>>, Tail(raw_lines))

\* _union_bbox
RECURSIVE union_bbox(_)
union_bbox(bboxes) ==
    IF Len(bboxes) = 1 THEN bboxes[1]
    ELSE merged_bbox(bboxes[1], union_bbox(Tail(bboxes)))

\* the item a group of lines yields
item_of(group) ==
    [text |-> join_with(<<LF>>, [k \in 1..Len(group) |-> group[k].text]),
     bbox |-> union_bbox([k \in 1..Len(group) |-> group[k].bbox]),
     first_span |-> group[1].first_span]

\* _split_block without bullets: a new group after a gap larger than the
\* height of the line before it
RECURSIVE gap_groups(_, _, _)
gap_groups(groups, lines, i) ==
    IF i > Len(lines) THEN groups
    ELSE LET prev_bbox == lines[i - 1].bbox
             gap == lines[i].bbox[2] - prev_bbox[4]
         IN  gap_groups(IF gap > prev_bbox[4] - prev_bbox[2]
                        THEN Append(groups, <<lines[i]>>)
                        ELSE [groups EXCEPT ![Len(groups)] = Append(@, lines[i])],
                        lines, i + 1)

\* faulty variant of bullet_groups: the group still open after the last line
\* is not yielded
RECURSIVE bullet_groups_unflushed(_, _, _)
bullet_groups_unflushed(groups, current, lines) ==
    IF lines = <<>> THEN groups
    ELSE IF Head(lines).is_bullet /\ current # <<>>
    THEN bullet_groups_unflushed(Append(groups, current), <<Head(lines)>>,
                                 Tail(lines))
    ELSE bullet_groups_unflushed(groups, Append(current, Head(lines)), Tail(lines))

\* _split_block with bullets: a bullet line closes the group before it
RECURSIVE bullet_groups(_, _, _)
bullet_groups(groups, current, lines) ==
    IF lines = <<>>
    THEN IF current # <<>> THEN Append(groups, current) ELSE groups
    ELSE IF Head(lines).is_bullet /\ current # <<>>
    THEN bullet_groups(Append(groups, current), <<Head(lines)>>, Tail(lines))
    ELSE bullet_groups(groups, Append(current, Head(lines)), Tail(lines))

\* _split_block: the items yielded, in order
split_block(block) ==
    LET lines == collect_block_lines(block)
        groups == IF \E k \in 1..Len(lines) : lines[k].is_bullet
                  THEN bullet_groups(<<>>, <<>>, lines)
                  ELSE gap_groups(<<<<lines[1]>>>>, lines, 2)
    IN  IF lines = <<>> THEN <<>>
        ELSE [k \in 1..Len(groups) |-> item_of(groups[k])]

\* raw.sort(key=lambda r: (r[1][1], r[1][0])): r sorts before s
sorts_before(r, s) ==
    r.bbox[2] < s.bbox[2] \/ (r.bbox[2] = s.bbox[2] /\ r.bbox[1] < s.bbox[1])

\* the stable sort: an item goes behind every item that does not sort after it
RECURSIVE insert_sorted(_, _)
insert_sorted(sorted, item) ==
    IF sorted = <<>> THEN <<item>>
    ELSE IF sorts_before(item, Head(sorted)) THEN <<item>> \o sorted
    ELSE <<Head(sorted)>> \o insert_sorted(Tail(sorted), item)

RECURSIVE sort_items(_, _)
sort_items(sorted, raw) ==
    IF raw = <<>> THEN sorted
    ELSE Bind(insert_sorted(sorted, Head(raw)), LAMBDA longer :
             sort_items(longer, Tail(raw)))

\* first_span.get("size", 12)
size_of(span) == span.size

\* _collect_page_items, the merge loop
RECURSIVE merge_items(_, _)
merge_items(merged, raw) ==
    IF raw = <<>> THEN merged
    ELSE Bind(<<merged, raw>>, LAMBDA v :
         LET prev == v[1][Len(v[1])]
             item == Head(v[2])
             h_gap == item.bbox[1] - prev.bbox[3]
             max_gap == Max2(size_of(prev.first_span), size_of(item.first_span))
         IN  IF same_row(prev.bbox, item.bbox) /\ 0 <= h_gap /\ h_gap < max_gap
             THEN merge_items(
                      [v[1] EXCEPT ![Len(v[1])] =
                          [text |-> prev.text \o separator(prev.text, item.text)
                                              \o item.text,
                           bbox |-> merged_bbox(prev.bbox, item.bbox),
                           first_span |-> prev.first_span]],
                      Tail(v[2]))
             ELSE merge_items(Append(v[1], item), Tail(v[2])))

\* _collect_page_items, first pass: the items of the text blocks, in order
RECURSIVE raw_items(_)
raw_items(page) ==
    IF page = <<>> THEN <<>>
    ELSE (IF Head(page).type # 0 THEN <<>> ELSE split_block(Head(page)))
         \o raw_items(Tail(page))

\* faulty variant of collect_page_items: the items of the blocks as they
\* come, neither sorted nor merged
collect_page_items_unmerged(page) == raw_items(page)

\* _collect_page_items
collect_page_items(page) ==
    Bind(raw_items(page), LAMBDA raw :
    Bind(sort_items(<<>>, raw), LAMBDA sorted :
        IF sorted = <<>> THEN <<>>
        ELSE merge_items(<<Head(sorted)>>, Tail(sorted))))

\* the items _find_span_by_index looks the index up in
find_items(page) == collect_page_items(page)

\* _find_span_by_index, span_index counted from 0
find_span_by_index(page, span_index) ==
    Bind(find_items(page), LAMBDA items :
        IF span_index < 0 \/ span_index >= Len(items) THEN None
        ELSE [bbox |-> items[span_index + 1].bbox,
              font |-> items[span_index + 1].first_span.font,
              size |-> items[span_index + 1].first_span.size,
              text |-> items[span_index + 1].text])

\* extract_text_spans: the spans of the response
extract_spans(page) ==
    Bind(collect_page_items(page), LAMBDA items :
        [k \in 1..Len(items) |->
            [index |-> k - 1,
             text |-> items[k].text,
             bbox |-> items[k].bbox,
             font |-> items[k].first_span.font,
             size |-> items[k].first_span.size]])

Span(text, font, size) == [text |-> text, font |-> font, size |-> size]
Line(spans, bbox) == [spans |-> spans, bbox |-> bbox]

\* "• first", "  continues", "• second", one under the other
TextFirst == <<BULLET, SP, 102, 105, 114, 115, 116>>
TextContinues == <<SP, SP, 99, 111, 110, 116, 105, 110, 117, 101, 115>>
TextSecond == <<BULLET, SP, 115, 101, 99, 111, 110, 100>>
LineFirst == Line(<<Span(TextFirst, "Helvetica", 12)>>, <<72, 100, 150, 112>>)
LineContinues ==
    Line(<<Span(TextContinues, "Helvetica", 12)>>, <<72, 114, 150, 126>>)
LineSecond == Line(<<Span(TextSecond, "Helvetica", 12)>>, <<72, 128, 150, 140>>)

\* "2" and "Background" on one row, "Background" also one unit higher
TextTwo == <<50>>
TextBackground == <<66, 97, 99, 107, 103, 114, 111, 117, 110, 100>>
LineTwo == Line(<<Span(TextTwo, "Helvetica", 12)>>, <<72, 100, 80, 112>>)
LineBackground ==
    Line(<<Span(TextBackground, "Helvetica", 12)>>, <<84, 100, 200, 112>>)
LineBackgroundHigher ==
    Line(<<Span(TextBackground, "Helvetica", 12)>>, <<84, 99, 200, 112>>)

\* a blank line, a line far below the others, a line whose bullet is a blank
\* span and then a span in a symbol font
LineBlank == Line(<<Span(<<SP>>, "Helvetica", 12)>>, <<72, 142, 76, 154>>)
LineFar == Line(<<Span(<<120>>, "Helvetica", 12)>>, <<72, 200, 80, 212>>)
LineSymbol ==
    Line(<<Span(<<SP>>, "Helvetica", 12), Span(<<108>>, "Symbol", 12),
           Span(<<SP, 121>>, "Helvetica", 12)>>, <<72, 156, 150, 168>>)

BlockLines == {LineFirst, LineContinues, LineSecond, LineTwo, LineBackground,
               LineBlank, LineFar, LineSymbol}
PageLines == {LineTwo, LineBackground, LineBackgroundHigher, LineFirst,
              LineContinues, LineBlank}

\* _split_block is run on a block
SplitBlock ==
    /\ fn.pc = "block"
    /\ fn' = [fn EXCEPT !.pc = "split",
                        !.lines = collect_block_lines(fn.block),
                        !.items = split_block(fn.block)]
    /\ UNCHANGED <<files, undo_stacks, redo_stacks, last, threads>>

InitBlock ==
    /\ files = EmptyDict
    /\ undo_stacks = EmptyDict
    /\ redo_stacks = EmptyDict
    /\ last = NoCall
    /\ threads = EmptyDict
    /\ fn \in {[pc |-> "block", block |-> [type |-> 0, lines |-> lines],
                lines |-> <<>>, items |-> <<>>] :
                  lines \in SeqsUpTo(BlockLines, MaxBlockLines)}

NextBlock ==
    \/ SplitBlock

SpecBlock == InitBlock /\ [][NextBlock]_vars

\* blocks of a page: text blocks of up to MaxPageBlockLines lines, and an
\* image block
PageBlocks ==
    {[type |-> 0, lines |-> lines] :
        lines \in SeqsUpTo(PageLines, MaxPageBlockLines) \ {<<>>}}
    \cup {[type |-> 1, lines |-> <<>>]}

\* extract_text_spans on the page
ExtractSpans ==
    /\ fn.pc = "page"
    /\ fn' = [fn EXCEPT !.pc = "extracted", !.spans = extract_spans(fn.page)]
    /\ UNCHANGED <<files, undo_stacks, redo_stacks, last, threads>>

\* _find_span_by_index on the same page
FindSpanByIndex ==
    /\ fn.pc = "extracted"
    /\ \E span_index \in -1..(Len(fn.spans) + 1) :
        fn' = [fn EXCEPT !.pc = "found",
                         !.span_index = span_index,
                         !.target = find_span_by_index(fn.page, span_index)]
    /\ UNCHANGED <<files, undo_stacks, redo_stacks, last, threads>>

InitPage ==
    /\ files = EmptyDict
    /\ undo_stacks = EmptyDict
    /\ redo_stacks = EmptyDict
    /\ last = NoCall
    /\ threads = EmptyDict
    /\ fn \in {[pc |-> "page", page |-> page, spans |-> <<>>,
                span_index |-> 0, target |-> None] :
                  page \in SeqsUpTo(PageBlocks, MaxPageBlocks)}

NextPage ==
    \/ ExtractSpans
    \/ FindSpanByIndex

SpecPage == InitPage /\ [][NextPage]_vars

(***************************************************************************)
(* image_service.py, text_service.py: the rectangle handed to insert_image *)
(* and insert_textbox.  Coordinates are whole points; a rectangle is       *)
(* <<x0, y0, x1, y1>>, built as pymupdf.Rect(x0, y0, x1, y1) builds it,    *)
(* without reordering its corners.                                         *)
(***************************************************************************)
PAGE_MARGIN == 5
TEXT_WIDTH_PADDING == 2
DEFAULT_IMAGE_WIDTH == 200
IMAGE_PADDING == 10
MIN_IMAGE_SIZE == 10
\* LINE_HEIGHT_FACTOR = 1.3, in tenths
LINE_HEIGHT_FACTOR_TENTHS == 13

\* page.rect of an A4 page
PageWidth == 595
PageHeight == 842

\* size * LINE_HEIGHT_FACTOR * lines, for sizes that are multiples of 10
line_height(size, lines) == (size * LINE_HEIGHT_FACTOR_TENTHS * lines) \div 10

\* add_image: the dimensions, from the image when one is not given;
\* img_w * scale is min(DEFAULT_IMAGE_WIDTH, page width - x - IMAGE_PADDING)
\* and img_h * scale that width in the proportion of the image
add_image_size(x, width, height, img_w, img_h) ==
    LET scaled_w == Min2(DEFAULT_IMAGE_WIDTH, PageWidth - x - IMAGE_PADDING)
    IN  IF width <= 0 \/ height <= 0
        THEN [width |-> IF width <= 0 THEN scaled_w ELSE width,
              height |-> IF height <= 0 THEN (img_h * scaled_w) \div img_w
                         ELSE height]
        ELSE [width |-> width, height |-> height]

\* add_image: the rect handed to page.insert_image
add_image_rect(x, y, width, height, img_w, img_h) ==
    LET size == add_image_size(x, width, height, img_w, img_h)
    IN  <<x, y,
          Min2(x + size.width, PageWidth - PAGE_MARGIN),
          Min2(y + size.height, PageHeight - PAGE_MARGIN)>>

\* move_image: new_rect, the image keeping the width and height of old_rect
move_image_rect(new_x, new_y, w, h) ==
    LET x == Max2(0, Min2(new_x, PageWidth - w))
        y == Max2(0, Min2(new_y, PageHeight - h))
    IN  <<x, y, x + w, y + h>>

\* resize_image: new_rect
resize_image_rect(new_x, new_y, new_w, new_h) ==
    LET w == Max2(MIN_IMAGE_SIZE, new_w)
        h == Max2(MIN_IMAGE_SIZE, new_h)
        x == Max2(0, Min2(new_x, PageWidth - w))
        y == Max2(0, Min2(new_y, PageHeight - h))
    IN  <<x, y, x + w, y + h>>

\* _insert_with_base14: insert_rect of the first page.insert_textbox
base14_first_rect(bbox, text_width, size) ==
    LET y1 == IF bbox[4] - bbox[2] < line_height(size, 1)
              THEN bbox[2] + line_height(size, 1) ELSE bbox[4]
        x1 == IF text_width > bbox[3] - bbox[1]
              THEN Min2(bbox[1] + text_width + TEXT_WIDTH_PADDING,
                        PageWidth - PAGE_MARGIN)
              ELSE bbox[3]
    IN  <<bbox[1], bbox[2], x1, y1>>

\* _insert_with_base14: the rects handed to page.insert_textbox, a second one
\* when the first call returns rc < 0
insert_with_base14_rects(bbox, text_width, size, rc) ==
    LET first == base14_first_rect(bbox, text_width, size)
    IN  IF rc < 0
        THEN <<first,
               [first EXCEPT ![4] = Min2(first[2] + line_height(size, 1 - rc),
                                         PageHeight - PAGE_MARGIN)]>>
        ELSE <<first>>

\* requested positions and sizes; bboxes of spans and images on the page
RectXs == {-20, 0, 72, 500, 592, 700}
RectYs == {-20, 0, 72, 830, 900}
RectWidths == {0, 8, 100, 700}
RectHeights == {0, 8, 100, 900}
ImageSizes == {<<100, 100>>, <<400, 200>>}
FontSizes == {10, 20}
TextWidths == {5, 60, 800}
TextboxResults == {3, -1, -2}

\* a rect that lies on the page and is not empty
on_page(rect) ==
    /\ 0 <= rect[1] /\ rect[1] < rect[3] /\ rect[3] <= PageWidth
    /\ 0 <= rect[2] /\ rect[2] < rect[4] /\ rect[4] <= PageHeight

\* add_image
AddImageRect ==
    /\ fn.pc = "request"
    /\ \E img \in ImageSizes :
        fn' = [fn EXCEPT !.pc = "drawn", !.op = "add_image",
                         !.rects = <<add_image_rect(fn.x, fn.y, fn.w, fn.h,
                                                    img[1], img[2])>>]
    /\ UNCHANGED <<files, undo_stacks, redo_stacks, last, threads>>

\* move_image of an image whose rect on the page is fn.w wide and fn.h high
MoveImageRect ==
    /\ fn.pc = "request"
    /\ 0 < fn.w /\ fn.w <= PageWidth /\ 0 < fn.h /\ fn.h <= PageHeight
    /\ fn' = [fn EXCEPT !.pc = "drawn", !.op = "move_image",
                        !.rects = <<move_image_rect(fn.x, fn.y, fn.w, fn.h)>>]
    /\ UNCHANGED <<files, undo_stacks, redo_stacks, last, threads>>

\* resize_image
ResizeImageRect ==
    /\ fn.pc = "request"
    /\ fn' = [fn EXCEPT !.pc = "drawn", !.op = "resize_image",
                        !.rects = <<resize_image_rect(fn.x, fn.y, fn.w, fn.h)>>]
    /\ UNCHANGED <<files, undo_stacks, redo_stacks, last, threads>>

\* _insert_with_base14 for a span whose bbox <<x, y, x + w, y + h>> lies on
\* the page
InsertWithBase14 ==
    /\ fn.pc = "request"
    /\ on_page(<<fn.x, fn.y, fn.x + fn.w, fn.y + fn.h>>)
    /\ \E text_width \in TextWidths, size \in FontSizes, rc \in TextboxResults :
        fn' = [fn EXCEPT !.pc = "drawn", !.op = "insert_with_base14",
                         !.rects = insert_with_base14_rects(
                                       <<fn.x, fn.y, fn.x + fn.w, fn.y + fn.h>>,
                                       text_width, size, rc)]
    /\ UNCHANGED <<files, undo_stacks, redo_stacks, last, threads>>

InitRect ==
    /\ files = EmptyDict
    /\ undo_stacks = EmptyDict
    /\ redo_stacks = EmptyDict
    /\ last = NoCall
    /\ threads = EmptyDict
    /\ fn \in {[pc |-> "request", op |-> "none", x |-> x, y |-> y, w |-> w,
                h |-> h, rects |-> <<>>] :
                  x \in RectXs, y \in RectYs, w \in RectWidths, h \in RectHeights}

NextRect ==
    \/ AddImageRect
    \/ MoveImageRect
    \/ ResizeImageRect
    \/ InsertWithBase14

SpecRect == InitRect /\ [][NextRect]_vars

(***************************************************************************)
(* text_service.py: the stages of edit_span, one step at a time.  stages   *)
(* lists what has been done to the page and the file so far.               *)
(***************************************************************************)
Arg(value) == [value |-> value]
FontObj == [font |-> "embedded"]

\* faulty variant of text_only_of: only the font is looked at
text_only_font(font, size, color) == font = None

\* text_only = font is None and size is None and color is None
text_only_of(font, size, color) == font = None /\ size = None /\ color = None

EditArgs ==
    {[font |-> font, size |-> size, color |-> color, new_text |-> new_text] :
        font \in {None, Arg("Helvetica")}, size \in {None, Arg(12)},
        color \in {None, Arg("#ff0000")}, new_text \in {<<>>, <<65>>}}

\* _find_span_by_index and the IndexError for a span that is not there
FindTarget ==
    /\ fn.pc = "called"
    /\ \E found \in BOOLEAN :
        fn' = [fn EXCEPT !.pc = IF found THEN "found" ELSE "raised"]
    /\ UNCHANGED <<files, undo_stacks, redo_stacks, last, threads>>

\* attempt 1: try_direct_edit, and the save and return when it succeeds
DirectEdit ==
    /\ fn.pc = "found"
    /\ IF text_only_of(fn.args.font, fn.args.size, fn.args.color)
          /\ fn.args.new_text # <<>>
       THEN \E edited \in BOOLEAN :
                fn' = [fn EXCEPT
                        !.pc = IF edited THEN "returned" ELSE "extract",
                        !.surgery_ok = edited,
                        !.stages = IF edited THEN @ \o <<"surgery", "save">>
                                   ELSE Append(@, "surgery")]
       ELSE fn' = [fn EXCEPT !.pc = "extract"]
    /\ UNCHANGED <<files, undo_stacks, redo_stacks, last, threads>>

\* original_font_obj: extracted when no font is given, dropped when it does
\* not cover the new text
ExtractPageFont ==
    /\ fn.pc = "extract"
    /\ IF fn.args.font = None
       THEN \E obj \in {None, FontObj}, covers \in BOOLEAN :
                fn' = [fn EXCEPT
                        !.pc = "redact",
                        !.original_font_obj =
                            IF obj # None /\ ~covers THEN None ELSE obj]
       ELSE fn' = [fn EXCEPT !.pc = "redact"]
    /\ UNCHANGED <<files, undo_stacks, redo_stacks, last, threads>>

\* page.add_redact_annot(bbox); page.apply_redactions(...)
Redact ==
    /\ fn.pc = "redact"
    /\ fn' = [fn EXCEPT !.pc = IF fn.args.new_text # <<>> THEN "insert"
                               ELSE "save",
                        !.stages = Append(@, "redact")]
    /\ UNCHANGED <<files, undo_stacks, redo_stacks, last, threads>>

\* attempt 2: _insert_with_extracted_font
InsertWithExtractedFont ==
    /\ fn.pc = "insert"
    /\ IF fn.original_font_obj # None
       THEN \E inserted \in BOOLEAN :
                fn' = [fn EXCEPT !.pc = "fallback",
                                 !.inserted = inserted,
                                 !.stages = Append(@, "extracted_font")]
       ELSE fn' = [fn EXCEPT !.pc = "fallback"]
    /\ UNCHANGED <<files, undo_stacks, redo_stacks, last, threads>>

\* attempt 3: _insert_with_base14
Base14Fallback ==
    /\ fn.pc = "fallback"
    /\ fn' = [fn EXCEPT !.pc = "save",
                        !.stages = IF fn.inserted THEN @
                                   ELSE Append(@, "base14")]
    /\ UNCHANGED <<files, undo_stacks, redo_stacks, last, threads>>

\* doc.save(..., incremental=True, ...)
SaveEdit ==
    /\ fn.pc = "save"
    /\ fn' = [fn EXCEPT !.pc = "returned", !.stages = Append(@, "save")]
    /\ UNCHANGED <<files, undo_stacks, redo_stacks, last, threads>>

InitEditSpan ==
    /\ files = EmptyDict
    /\ undo_stacks = EmptyDict
    /\ redo_stacks = EmptyDict
    /\ last = NoCall
    /\ threads = EmptyDict
    /\ fn \in {[pc |-> "called", args |-> args, surgery_ok |-> FALSE,
                original_font_obj |-> None, inserted |-> FALSE,
                stages |-> <<>>] : args \in EditArgs}

NextEditSpan ==
    \/ FindTarget
    \/ DirectEdit
    \/ ExtractPageFont
    \/ Redact
    \/ InsertWithExtractedFont
    \/ Base14Fallback
    \/ SaveEdit

SpecEditSpan == InitEditSpan /\ [][NextEditSpan]_vars

(***************************************************************************)
(* stream_editor.py: _find_and_replace_text.  Tokens are byte strings, as  *)
(* _tokenize_stream returns them; a font of the page resources is the      *)
(* record of what the font helpers read from it; a handling mode is the    *)
(* tuple _resolve_font returns.                                            *)
(***************************************************************************)
MaxStreamPieces == 3

TokBT == <<66, 84>>
TokET == <<69, 84>>
TokTf == <<84, 102>>
TokTj == <<84, 106>>
TokTJ == <<84, 74>>

\* text.strip()
RECURSIVE rstrip(_)
rstrip(text) ==
    IF text # <<>> /\ text[Len(text)] \in SpaceChars
    THEN rstrip(SubSeq(text, 1, Len(text) - 1)) ELSE text

strip(text) == rstrip(lstrip(text))

starts_with(tok, b) == tok # <<>> /\ tok[1] = b

\* _extract_tj_strings: the end of a literal string, while i < n and depth > 0
RECURSIVE tj_literal_end(_, _, _)
tj_literal_end(inner, i, depth) ==
    IF i > Len(inner) \/ depth <= 0 THEN i
    ELSE IF inner[i] = BACKSLASH THEN tj_literal_end(inner, i + 2, depth)
    ELSE IF inner[i] = LPAREN THEN tj_literal_end(inner, i + 1, depth + 1)
    ELSE IF inner[i] = RPAREN THEN tj_literal_end(inner, i + 1, depth - 1)
    ELSE tj_literal_end(inner, i + 1, depth)

\* _extract_tj_strings: the end of a hex string
RECURSIVE tj_hex_end(_, _)
tj_hex_end(inner, i) ==
    IF i <= Len(inner) /\ inner[i] # GT THEN tj_hex_end(inner, i + 1) ELSE i + 1

\* _extract_tj_strings: the loop over inner
RECURSIVE tj_strings(_, _, _)
tj_strings(inner, i, strings) ==
    IF i > Len(inner) THEN strings
    ELSE IF inner[i] = LPAREN
    THEN LET j == tj_literal_end(inner, i + 1, 1)
         IN  tj_strings(inner, j, Append(strings, Slice(inner, i, j)))
    ELSE IF inner[i] = LT /\ (i + 1 > Len(inner) \/ inner[i + 1] # LT)
    THEN LET j == tj_hex_end(inner, i + 1)
         IN  tj_strings(inner, j, Append(strings, Slice(inner, i, j)))
    ELSE tj_strings(inner, i + 1, strings)

\* _extract_tj_strings
extract_tj_strings(arr_token) ==
    tj_strings(SubSeq(arr_token, 2, Len(arr_token) - 1), 1, <<>>)

\* a font tag the page resources do not list: no helper finds anything
UnlistedFont ==
    [is_cid |-> FALSE, is_subset |-> FALSE, has_diff |-> FALSE,
     tounicode |-> <<>>, encoding |-> Null]

\* _get_tounicode_maps: (forward, reverse, bytes_per_code), or empty maps and
\* 1 for (None, None, 1)
get_tounicode_maps(font) ==
    Bind(parse_tounicode_cmap(font.tounicode), LAMBDA out :
    Bind(build_reverse_cmap(out.forward, <<>>), LAMBDA reverse :
        IF font.tounicode = <<>> \/ out.forward = <<>> \/ reverse = <<>>
        THEN [forward |-> <<>>, reverse |-> <<>>, bytes_per_code |-> 1]
        ELSE [forward |-> out.forward, reverse |-> reverse,
              bytes_per_code |-> out.bytes_per_code]))

Mode(skip_font, use_cmap, encoding, forward, reverse, bpc) ==
    [skip_font |-> skip_font, use_cmap |-> use_cmap, encoding |-> encoding,
     forward |-> forward, reverse |-> reverse, bpc |-> bpc]

\* the state of the font variables before any Tf
NoFontMode == Mode(FALSE, FALSE, Null, <<>>, <<>>, 1)

\* _resolve_font
resolve_font(ft, resources) ==
    Bind(IF dict_has(resources, ft) THEN dict_get(resources, ft)
         ELSE UnlistedFont, LAMBDA font :
        IF font.is_cid \/ font.is_subset \/ font.has_diff
        THEN Bind(get_tounicode_maps(font), LAMBDA maps :
             IF maps.forward # <<>> /\ maps.reverse # <<>>
             THEN Mode(FALSE, TRUE, Null, maps.forward, maps.reverse,
                       maps.bytes_per_code)
             ELSE Mode(TRUE, FALSE, Null, <<>>, <<>>, 1))
        ELSE Mode(FALSE, FALSE, font.encoding, <<>>, <<>>, 1))

\* tok == b"Tf" and i >= 2 and font_tok.startswith(b"/")
names_font(tokens, k) ==
    tokens[k] = TokTf /\ k >= 3 /\ starts_with(tokens[k - 2], SLASH)

\* the string operand is decoded in the mode
decode_operand(str_tok, mode) ==
    IF mode.use_cmap THEN decode_with_cmap(str_tok, mode.forward, mode.bpc)
    ELSE decode_pdf_string(str_tok, mode.encoding)

\* the strings of a TJ array are decoded and concatenated
RECURSIVE decode_parts(_, _)
decode_parts(parts, mode) ==
    IF parts = <<>> THEN [exc |-> "none", text |-> <<>>]
    ELSE Bind(decode_operand(Head(parts), mode), LAMBDA first :
         IF first.exc # "none" THEN first
         ELSE Bind(decode_parts(Tail(parts), mode), LAMBDA others :
              IF others.exc # "none" THEN others
              ELSE [exc |-> "none", text |-> first.text \o others.text]))

\* new_text is encoded in the mode
encode_operand(new_text, mode) ==
    IF mode.use_cmap THEN encode_with_cmap(new_text, mode.reverse, mode.bpc)
    ELSE encode_pdf_string(new_text, mode.encoding)

is_string_token(tok) == starts_with(tok, LPAREN) \/ starts_with(tok, LT)
is_array_token(tok) == starts_with(tok, LBRACKET) /\ tok[Len(tok)] = RBRACKET

\* the operand a match is written to
new_operand(token, is_array) ==
    IF is_array THEN <<LBRACKET>> \o token \o <<RBRACKET>> ELSE token

\* a faulty variant of the blanking: () also for an array operand
blank_operand_unwrapped(is_array) == <<LPAREN, RPAREN>>

\* the operand a later operand of a matching block is blanked to
blank_operand(is_array) ==
    IF is_array THEN <<LBRACKET, LPAREN, RPAREN, RBRACKET>>
    ELSE <<LPAREN, RPAREN>>

\* a faulty variant of a match: the operands are blanked before new_text is
\* encoded, so a failure leaves them changed
replace_ops_written_first(tokens, ops, new_text, mode) ==
    Bind(encode_operand(new_text, mode), LAMBDA out :
        LET written == [k \in 1..Len(tokens) |->
                           IF \E j \in 1..Len(ops) : ops[j].idx = k
                           THEN blank_operand(
                                    ops[CHOOSE j \in 1..Len(ops) : ops[j].idx = k].is_array)
                           ELSE tokens[k]]
        IN  IF out.exc = "ValueError" THEN [ret |-> "False", tokens |-> written]
            ELSE IF out.exc # "none" THEN [ret |-> "raised", tokens |-> written]
            ELSE [ret |-> "True",
                  tokens |-> [written EXCEPT ![ops[1].idx] =
                                 new_operand(out.token, ops[1].is_array)]])

\* a match: new_text is encoded; ValueError returns False, another
\* exception leaves the function, and the tokens are written only after
replace_ops(tokens, ops, new_text, mode) ==
    Bind(encode_operand(new_text, mode), LAMBDA out :
        IF out.exc = "ValueError" THEN [ret |-> "False", tokens |-> tokens]
        ELSE IF out.exc # "none" THEN [ret |-> "raised", tokens |-> tokens]
        ELSE [ret |-> "True",
              tokens |-> [k \in 1..Len(tokens) |->
                  IF k = ops[1].idx THEN new_operand(out.token, ops[1].is_array)
                  ELSE IF \E j \in 2..Len(ops) : ops[j].idx = k
                  THEN blank_operand(
                           ops[CHOOSE j \in 2..Len(ops) : ops[j].idx = k].is_array)
                  ELSE tokens[k]]])

Op(is_array, idx) == [is_array |-> is_array, idx |-> idx]

\* the kind of operand the operator at k draws: "Tj" for a string before
\* Tj, "TJ" for an array before TJ
operand_kind(tokens, k) ==
    IF tokens[k] = TokTj /\ k >= 2 /\ is_string_token(tokens[k - 1]) THEN "Tj"
    ELSE IF tokens[k] = TokTJ /\ k >= 2 /\ is_array_token(tokens[k - 1]) THEN "TJ"
    ELSE "other"

\* the strings of the operand of the operator at k
operand_parts(tokens, k) ==
    IF operand_kind(tokens, k) = "Tj" THEN <<tokens[k - 1]>>
    ELSE IF operand_kind(tokens, k) = "TJ" THEN extract_tj_strings(tokens[k - 1])
    ELSE <<>>

\* pass 1, from token k on with the font variables in mode; ret "none" when
\* the loop ends without a match
RECURSIVE pass1(_, _, _, _, _, _)
pass1(tokens, k, mode, target_stripped, new_text, resources) ==
    IF k > Len(tokens) THEN [ret |-> "none", tokens |-> tokens]
    ELSE Bind(IF names_font(tokens, k)
              THEN resolve_font(Tail(tokens[k - 2]), resources) ELSE mode,
              LAMBDA m :
         Bind(IF m.skip_font THEN [exc |-> "none", text |-> <<>>]
              ELSE decode_parts(operand_parts(tokens, k), m), LAMBDA decoded :
             IF m.skip_font \/ operand_parts(tokens, k) = <<>>
             THEN pass1(tokens, k + 1, m, target_stripped, new_text, resources)
             ELSE IF decoded.exc # "none"
             THEN [ret |-> "raised", tokens |-> tokens]
             ELSE IF strip(decoded.text) = target_stripped
             THEN replace_ops(tokens,
                              <<Op(operand_kind(tokens, k) = "TJ", k - 1)>>,
                              new_text, m)
             ELSE pass1(tokens, k + 1, m, target_stripped, new_text, resources)))

\* pass 2: the variables before the loop
Pass2Start ==
    [mode |-> NoFontMode, in_bt |-> FALSE, block_text |-> <<>>,
     block |-> NoFontMode, block_has_unsafe_font |-> FALSE,
     block_font_changes |-> 0, block_ops |-> <<>>]

\* pass 2, at BT: the block starts from the variables outside the blocks
at_bt(s) ==
    [s EXCEPT !.in_bt = TRUE, !.block_text = <<>>, !.block = s.mode,
              !.block_has_unsafe_font = s.mode.skip_font,
              !.block_font_changes = 0, !.block_ops = <<>>]

\* pass 2, a Tf inside a block
at_block_tf(s, tokens, k, resources) ==
    IF names_font(tokens, k)
    THEN LET r == resolve_font(Tail(tokens[k - 2]), resources)
         IN  IF r.skip_font
             THEN [s EXCEPT !.block_font_changes = @ + 1,
                            !.block_has_unsafe_font = TRUE]
             ELSE [s EXCEPT !.block_font_changes = @ + 1, !.block = r]
    ELSE s

\* pass 2, a Tj or TJ inside a block: what is decoded from its operand
block_operand_text(s, tokens, k) ==
    IF s.block_has_unsafe_font \/ operand_kind(tokens, k) = "other"
    THEN [exc |-> "none", text |-> <<>>, op |-> <<>>]
    ELSE Bind(decode_parts(operand_parts(tokens, k), s.block), LAMBDA d :
             [exc |-> d.exc, text |-> d.text,
              op |-> <<Op(operand_kind(tokens, k) = "TJ", k - 1)>>])

\* pass 2, a token inside a block up to the test for ET: the variables after
\* it, and the exception a decoder raised
block_step(s, tokens, k, resources) ==
    Bind(at_block_tf(s, tokens, k, resources), LAMBDA s1 :
    Bind(block_operand_text(s1, tokens, k), LAMBDA drawn :
        [exc |-> drawn.exc,
         s |-> [s1 EXCEPT !.block_text = @ \o drawn.text,
                          !.block_ops = @ \o drawn.op]]))

\* pass 2, from token k on
RECURSIVE pass2(_, _, _, _, _, _)
pass2(tokens, k, state, target_stripped, new_text, resources) ==
    IF k > Len(tokens) THEN [ret |-> "False", tokens |-> tokens]
    ELSE Bind(IF tokens[k] = TokBT THEN [exc |-> "none", s |-> at_bt(state)]
              ELSE IF ~state.in_bt
              THEN [exc |-> "none",
                    s |-> IF names_font(tokens, k)
                          THEN [state EXCEPT !.mode =
                                   resolve_font(Tail(tokens[k - 2]), resources)]
                          ELSE state]
              ELSE block_step(state, tokens, k, resources), LAMBDA step :
         LET s == step.s
             next == pass2(tokens, k + 1,
                           IF tokens[k] = TokET THEN [s EXCEPT !.in_bt = FALSE]
                           ELSE s,
                           target_stripped, new_text, resources)
         IN  IF step.exc # "none" THEN [ret |-> "raised", tokens |-> tokens]
             ELSE IF tokens[k] # TokET \/ ~state.in_bt THEN next
             ELSE IF s.block_has_unsafe_font \/ s.block_font_changes > 1
             THEN next
             ELSE IF s.block_ops = <<>> \/ strip(s.block_text) = <<>> THEN next
             ELSE IF strip(s.block_text) = target_stripped
             THEN replace_ops(tokens, s.block_ops, new_text, s.block)
             ELSE next)

\* _find_and_replace_text: ret is "True", "False" or "raised", tokens the
\* list as the call leaves it
find_and_replace_text(tokens, target_text, new_text, resources) ==
    Bind(pass1(tokens, 1, NoFontMode, strip(target_text), new_text, resources),
         LAMBDA first :
        IF first.ret # "none" THEN first
        ELSE pass2(tokens, 1, Pass2Start, strip(target_text), new_text, resources))

\* the fonts of the page: F1 a plain font, F2 a subset font without a
\* ToUnicode CMap, F3 a subset font whose CMap maps <0041> to A and <0042>
\* to B
TagF1 == <<70, 49>>
TagF2 == <<70, 50>>
TagF3 == <<70, 51>>
PageFonts ==
    << <<TagF1, [is_cid |-> FALSE, is_subset |-> FALSE, has_diff |-> FALSE,
                 tounicode |-> <<>>, encoding |-> "WinAnsiEncoding"]>>,
       <<TagF2, [is_cid |-> FALSE, is_subset |-> TRUE, has_diff |-> FALSE,
                 tounicode |-> <<>>, encoding |-> Null]>>,
       <<TagF3, [is_cid |-> FALSE, is_subset |-> TRUE, has_diff |-> FALSE,
                 tounicode |-> <<[form |-> "bfchar", src |-> <<0, 0, 4, 1>>,
                                  dst |-> <<0, 0, 4, 1>>],
                                 [form |-> "bfchar", src |-> <<0, 0, 4, 2>>,
                                  dst |-> <<0, 0, 4, 2>>]>>,
                 encoding |-> Null]>> >>

Size12 == <<49, 50>>
SelectF1 == <<<<SLASH>> \o TagF1, Size12, TokTf>>
SelectF2 == <<<<SLASH>> \o TagF2, Size12, TokTf>>
SelectF3 == <<<<SLASH>> \o TagF3, Size12, TokTf>>

\* pieces of a content stream
PieceF1A == <<TokBT>> \o SelectF1 \o <<<<40, 65, 41>>, TokTj, TokET>>
PieceA == <<TokBT, <<40, 65, 41>>, TokTj, TokET>>
PieceF2A == <<TokBT>> \o SelectF2 \o <<<<40, 65, 41>>, TokTj, TokET>>
PieceF1Split == <<TokBT>> \o SelectF1 \o <<<<40, 65, 41>>, TokTj, <<40, 66, 41>>, TokTj, TokET>>
PieceF1AB == <<TokBT>> \o SelectF1 \o <<<<40, 65, 66, 41>>, TokTj, TokET>>
PieceF1Array == <<TokBT>> \o SelectF1 \o <<<<91, 40, 65, 41, 32, 45, 49, 48, 32, 40, 66, 41, 93>>, TokTJ, TokET>>
PieceF1SplitArray ==
    <<TokBT>> \o SelectF1 \o <<<<91, 40, 65, 41, 93>>, TokTJ, <<40, 66, 41>>, TokTj, TokET>>
PieceF3A == <<TokBT>> \o SelectF3 \o <<<<60, 48, 48, 52, 49, 62>>, TokTj, TokET>>
PieceF3Split ==
    <<TokBT>> \o SelectF3
        \o <<<<60, 48, 48, 52, 49, 62>>, TokTj, <<60, 48, 48, 52, 50, 62>>, TokTj, TokET>>
PieceF1Three ==
    <<TokBT>> \o SelectF1
        \o <<<<91, 40, 65, 41, 93>>, TokTJ, <<40, 66, 41>>, TokTj,
             <<91, 40, 32, 41, 93>>, TokTJ, TokET>>
PieceSelectF2 == SelectF2

StreamPieces ==
    {PieceF1A, PieceA, PieceF2A, PieceF1Split, PieceF1AB, PieceF1Array,
     PieceF1SplitArray, PieceF3A, PieceF3Split, PieceF1Three, PieceSelectF2}

\* "A", " AB"
TargetTexts == {<<65>>, <<SP, 65, 66>>}
\* "C", which the CMap of F3 does not hold, and "B"
NewTexts == {<<67>>, <<66>>}

RECURSIVE concat(_)
concat(pieces) ==
    IF pieces = <<>> THEN <<>> ELSE Head(pieces) \o concat(Tail(pieces))

\* _find_and_replace_text on the tokens of the stream
FindAndReplace ==
    /\ fn.pc = "tokens"
    /\ \E out \in {find_and_replace_text(fn.tokens, fn.target_text,
                                          fn.new_text, PageFonts)} :
        fn' = [fn EXCEPT !.pc = "returned", !.ret = out.ret, !.out = out.tokens]
    /\ UNCHANGED <<files, undo_stacks, redo_stacks, last, threads>>

InitReplace ==
    /\ files = EmptyDict
    /\ undo_stacks = EmptyDict
    /\ redo_stacks = EmptyDict
    /\ last = NoCall
    /\ threads = EmptyDict
    /\ fn \in {[pc |-> "tokens", pieces |-> pieces, tokens |-> concat(pieces),
                target_text |-> target_text, new_text |-> new_text,
                ret |-> "none", out |-> <<>>] :
                  pieces \in SeqsUpTo(StreamPieces, MaxStreamPieces),
                  target_text \in TargetTexts, new_text \in NewTexts}

NextReplace ==
    \/ FindAndReplace

SpecReplace == InitReplace /\ [][NextReplace]_vars

(***************************************************************************)
(* stream_editor.py: try_direct_edit.  A page is the content stream its    *)
(* first contents object holds after cleaning, or no contents object at    *)
(* all; calls is the list of library calls the function made on the page   *)
(* and the document, in order.                                             *)
(***************************************************************************)
\* a faulty variant of the newline test: nothing is refused
never_multiline(target_text) == FALSE

\* "\n" in target_text
is_multiline(target_text) == \E k \in 1..Len(target_text) : target_text[k] = LF

\* the result of try_direct_edit: what it returns, the calls made, the
\* stream of the page after it, and whether the tokenizer never returned
DirectResult(ret, calls, stream, hangs) ==
    [ret |-> ret, calls |-> calls, stream |-> stream, hangs |-> hangs]

\* try_direct_edit; lib_error names the library call that raises, "none"
\* for none
try_direct_edit(page, target_text, new_text, lib_error) ==
    IF is_multiline(target_text)
    THEN DirectResult("False", <<>>, page.stream, FALSE)
    ELSE IF lib_error = "clean_contents"
    THEN DirectResult("False", <<"clean_contents">>, page.stream, FALSE)
    ELSE IF lib_error = "get_contents" \/ ~page.has_contents
    THEN DirectResult("False", <<"clean_contents", "get_contents">>,
                      page.stream, FALSE)
    ELSE IF lib_error = "xref_stream" \/ page.stream = <<>>
    THEN DirectResult("False", <<"clean_contents", "get_contents", "xref_stream">>,
                      page.stream, FALSE)
    ELSE Bind(tokenize_stream(page.stream), LAMBDA tokenized :
         IF tokenized.hangs
         THEN DirectResult("none", <<"clean_contents", "get_contents", "xref_stream">>,
                           page.stream, TRUE)
         ELSE Bind(find_and_replace_text(tokenized.tokens, target_text,
                                         new_text, PageFonts), LAMBDA out :
              IF out.ret # "True"
              THEN DirectResult("False",
                                <<"clean_contents", "get_contents", "xref_stream">>,
                                page.stream, FALSE)
              ELSE IF lib_error = "update_stream"
              THEN DirectResult("False",
                                <<"clean_contents", "get_contents", "xref_stream",
                                  "update_stream">>,
                                page.stream, FALSE)
              ELSE DirectResult("True",
                                <<"clean_contents", "get_contents", "xref_stream",
                                  "update_stream">>,
                                join_tokens(out.tokens), FALSE)))

\* the pages edited: no contents, an empty stream, a stream with a stray
\* closing parenthesis, and one block of text in each kind of font
DirectPieces == {PieceF1A, PieceF2A, PieceF1Split, PieceF1AB, PieceF1Array, PieceF3A}
DirectPages ==
    {[has_contents |-> FALSE, stream |-> <<>>],
     [has_contents |-> TRUE, stream |-> <<>>],
     [has_contents |-> TRUE, stream |-> <<RPAREN>>]}
    \cup {[has_contents |-> TRUE, stream |-> join_tokens(piece)] :
             piece \in DirectPieces}

\* "A", "A\n", " AB", "A\nB"
DirectTargets == {<<65>>, <<65, LF>>, <<SP, 65, 66>>, <<65, LF, 66>>}

LibErrors == {"none", "clean_contents", "get_contents", "xref_stream", "update_stream"}

\* try_direct_edit on the page
TryDirectEdit ==
    /\ fn.pc = "called"
    /\ \E lib_error \in LibErrors :
       \E out \in {try_direct_edit(fn.page, fn.target_text, fn.new_text, lib_error)} :
        fn' = [fn EXCEPT !.pc = IF out.hangs THEN "hung" ELSE "returned",
                         !.ret = out.ret, !.calls = out.calls,
                         !.stream = out.stream]
    /\ UNCHANGED <<files, undo_stacks, redo_stacks, last, threads>>

InitDirectEdit ==
    /\ files = EmptyDict
    /\ undo_stacks = EmptyDict
    /\ redo_stacks = EmptyDict
    /\ last = NoCall
    /\ threads = EmptyDict
    /\ fn \in {[pc |-> "called", page |-> page, target_text |-> target_text,
                new_text |-> new_text, ret |-> "none", calls |-> <<>>,
                stream |-> page.stream] :
                  page \in DirectPages, target_text \in DirectTargets,
                  new_text \in NewTexts}

NextDirectEdit ==
    \/ TryDirectEdit

SpecDirectEdit == InitDirectEdit /\ [][NextDirectEdit]_vars

(***************************************************************************)
(* history.py: an undo and the call that follows it.  fn holds what the    *)
(* file and the stacks of the document were when the most recent undo or   *)
(* redo was called, and for a redo what they were at the undo before it.   *)
(***************************************************************************)
\* the file and the stacks of a document; a document without a stack has an
\* empty one (_undo_stacks.get(doc_id) is None or [])
HistoryView(doc_id) ==
    [file |-> Before(doc_id),
     undo |-> Get(undo_stacks, doc_id, <<>>),
     redo |-> Get(redo_stacks, doc_id, <<>>)]

NoView == [file |-> NoFile, undo |-> <<>>, redo |-> <<>>]

NoHistoryCall == [call |-> "none", doc_id |-> <<>>, before |-> NoView,
                  before_undo |-> NoView]

HistoryDocIds == {IdA, IdB}

\* undo(doc_id), with the state it was called in
UndoCall(doc_id) ==
    /\ undo(doc_id)
    /\ fn' = [call |-> "undo", doc_id |-> doc_id, before |-> HistoryView(doc_id),
              before_undo |-> NoView]
    /\ UNCHANGED threads

\* redo(doc_id), with the state it was called in and the state the undo
\* before it was called in
RedoCall(doc_id) ==
    /\ redo(doc_id)
    /\ fn' = [call |-> "redo", doc_id |-> doc_id, before |-> HistoryView(doc_id),
              before_undo |-> IF fn.call = "undo" /\ fn.doc_id = doc_id
                              THEN fn.before ELSE NoView]
    /\ UNCHANGED threads

InitUndoRedo ==
    /\ files = EmptyDict
    /\ undo_stacks = EmptyDict
    /\ redo_stacks = EmptyDict
    /\ last = NoCall
    /\ threads = EmptyDict
    /\ fn = NoHistoryCall

\* one document is uploaded and edited, with every page number; undo and
\* redo are called for it and for an id no document has
NextUndoRedo ==
    \/ SaveUpload(IdA)
    \/ \E page_num \in PageNums : Shallow(IdA) /\ EditSpan(IdA, page_num)
    \/ \E doc_id \in HistoryDocIds :
        \/ UndoCall(doc_id)
        \/ RedoCall(doc_id)

SpecUndoRedo == InitUndoRedo /\ [][NextUndoRedo]_vars

(***************************************************************************)
(* text_service.py: _normalize_font.  A font name is the sequence of its   *)
(* characters.                                                             *)
(***************************************************************************)
PLUS == 43

\* FONT_MAP, in the order of the dict: the pattern and its Base14 name
FONT_MAP ==
    <<<<<<104, 101, 108, 118>>, <<104, 101, 108, 118>>>>,
      <<<<104, 101, 108, 118, 101, 116, 105, 99, 97>>, <<104, 101, 108, 118>>>>,
      <<<<97, 114, 105, 97, 108>>, <<104, 101, 108, 118>>>>,
      <<<<116, 105, 115, 97>>, <<104, 101, 108, 118>>>>,
      <<<<99, 97, 108, 105, 98, 114, 105>>, <<104, 101, 108, 118>>>>,
      <<<<118, 101, 114, 100, 97, 110, 97>>, <<104, 101, 108, 118>>>>,
      <<<<116, 97, 104, 111, 109, 97>>, <<104, 101, 108, 118>>>>,
      <<<<116, 114, 101, 98, 117, 99, 104, 101, 116>>, <<104, 101, 108, 118>>>>,
      <<<<115, 101, 103, 111, 101, 117, 105>>, <<104, 101, 108, 118>>>>,
      <<<<116, 105, 109, 101, 115>>, <<116, 105, 114, 111>>>>,
      <<<<116, 105, 109, 101, 115, 110, 101, 119, 114, 111, 109, 97, 110>>, <<116, 105, 114, 111>>>>,
      <<<<116, 105, 109, 101, 115, 45, 114, 111, 109, 97, 110>>, <<116, 105, 114, 111>>>>,
      <<<<99, 97, 109, 98, 114, 105, 97>>, <<116, 105, 114, 111>>>>,
      <<<<103, 101, 111, 114, 103, 105, 97>>, <<116, 105, 114, 111>>>>,
      <<<<103, 97, 114, 97, 109, 111, 110, 100>>, <<116, 105, 114, 111>>>>,
      <<<<112, 97, 108, 97, 116, 105, 110, 111>>, <<116, 105, 114, 111>>>>,
      <<<<99, 111, 117, 114, 105, 101, 114>>, <<99, 111, 117, 114>>>>,
      <<<<99, 111, 117, 114, 105, 101, 114, 110, 101, 119>>, <<99, 111, 117, 114>>>>,
      <<<<99, 111, 110, 115, 111, 108, 97, 115>>, <<99, 111, 117, 114>>>>,
      <<<<108, 117, 99, 105, 100, 97, 99, 111, 110, 115, 111, 108, 101>>, <<99, 111, 117, 114>>>>,
      <<<<115, 121, 109, 98, 111, 108>>, <<115, 121, 109, 98>>>>,
      <<<<122, 97, 112, 102, 100, 105, 110, 103, 98, 97, 116, 115>>, <<122, 97, 100, 98>>>> >>
\* the patterns are, in order: helv, helvetica, arial, tisa, calibri, verdana, tahoma, trebuchet,
\* segoeui, times, timesnewroman, times-roman, cambria, georgia, garamond, palatino,
\* courier, couriernew, consolas, lucidaconsole, symbol, zapfdingbats

\* "bold", "italic", "oblique"
WordBold == <<98, 111, 108, 100>>
WordItalic == <<105, 116, 97, 108, 105, 99>>
WordOblique == <<111, 98, 108, 105, 113, 117, 101>>

\* font_name.lower(), for names of ASCII characters
lower(text) ==
    [k \in 1..Len(text) |-> IF text[k] >= 65 /\ text[k] <= 90 THEN text[k] + 32
                            ELSE text[k]]

\* text.replace(ch, "")
without(text, ch) == SelectSeq(text, LAMBDA c : c # ch)

\* pattern in key
contains(key, pattern) ==
    \E k \in 1..(Len(key) - Len(pattern) + 1) :
        SubSeq(key, k, k + Len(pattern) - 1) = pattern

\* key.split("+", 1)[1] when "+" is in key
after_plus(key) ==
    IF \E k \in 1..Len(key) : key[k] = PLUS
    THEN SubSeq(key, 1 + (CHOOSE k \in 1..Len(key) :
                            /\ key[k] = PLUS
                            /\ \A j \in 1..(k - 1) : key[j] # PLUS),
                Len(key))
    ELSE key

\* the key _normalize_font looks the patterns up in
font_key(font_name) == after_plus(without(without(lower(font_name), SP), HYPHEN))

\* the Base14 name with the suffix for the style words in the key
styled(base14, key) ==
    IF contains(key, WordBold) /\ contains(key, WordItalic)
    THEN base14 \o <<98, 105>>
    ELSE IF contains(key, WordBold) THEN base14 \o <<98, 111>>
    ELSE IF contains(key, WordItalic) \/ contains(key, WordOblique)
    THEN base14 \o <<105, 116>>
    ELSE base14

\* the default fallback, on font_name.lower(): "hebo", "heit" or "helv"
fallback_font(font_name) ==
    IF contains(lower(font_name), WordBold) THEN <<104, 101, 98, 111>>
    ELSE IF contains(lower(font_name), WordItalic) THEN <<104, 101, 105, 116>>
    ELSE <<104, 101, 108, 118>>

\* _normalize_font
normalize_font(font_name) ==
    LET key == font_key(font_name)
        hits == SelectSeq(FONT_MAP, LAMBDA entry : contains(key, entry[1]))
    IN  IF hits # <<>> THEN styled(hits[1][2], key) ELSE fallback_font(font_name)

\* the fourteen Base14 identifiers: helv, heit, hebo, hebi, tiro, tiit, tibo,
\* tibi, cour, coit, cobo, cobi, symb, zadb
Base14 ==
    {<<104, 101, 108, 118>>,
     <<104, 101, 105, 116>>,
     <<104, 101, 98, 111>>,
     <<104, 101, 98, 105>>,
     <<116, 105, 114, 111>>,
     <<116, 105, 105, 116>>,
     <<116, 105, 98, 111>>,
     <<116, 105, 98, 105>>,
     <<99, 111, 117, 114>>,
     <<99, 111, 105, 116>>,
     <<99, 111, 98, 111>>,
     <<99, 111, 98, 105>>,
     <<115, 121, 109, 98>>,
     <<122, 97, 100, 98>>}

\* the font names normalized: a subset prefix or none, a family, a style
\* suffix or none
SubsetPrefixes == {<<>>, <<65, 66, 67, 68, 69, 70, 43>>}
\* "Helvetica", "Arial", "Times New Roman", "Times-Roman", "Courier New", "Symbol",
\* "ZapfDingbats", "Foo", "helv", "hebo", "tiro", "cobi"
FontFamilies ==
    {<<72, 101, 108, 118, 101, 116, 105, 99, 97>>,
     <<65, 114, 105, 97, 108>>,
     <<84, 105, 109, 101, 115, 32, 78, 101, 119, 32, 82, 111, 109, 97, 110>>,
     <<84, 105, 109, 101, 115, 45, 82, 111, 109, 97, 110>>,
     <<67, 111, 117, 114, 105, 101, 114, 32, 78, 101, 119>>,
     <<83, 121, 109, 98, 111, 108>>,
     <<90, 97, 112, 102, 68, 105, 110, 103, 98, 97, 116, 115>>,
     <<70, 111, 111>>,
     <<104, 101, 108, 118>>,
     <<104, 101, 98, 111>>,
     <<116, 105, 114, 111>>,
     <<99, 111, 98, 105>>}
\* "", "-Bold", "-Italic", "-BoldItalic", "-Oblique", " Bold"
StyleSuffixes ==
    {<<>>,
     <<45, 66, 111, 108, 100>>,
     <<45, 73, 116, 97, 108, 105, 99>>,
     <<45, 66, 111, 108, 100, 73, 116, 97, 108, 105, 99>>,
     <<45, 79, 98, 108, 105, 113, 117, 101>>,
     <<32, 66, 111, 108, 100>>}

\* _normalize_font on the name, as extract_text_spans calls it
NormalizeFont ==
    /\ fn.pc = "name"
    /\ fn' = [fn EXCEPT !.pc = "normalized",
                        !.normalized_font = normalize_font(fn.font_name)]
    /\ UNCHANGED <<files, undo_stacks, redo_stacks, last, threads>>

\* _normalize_font on its own result, as edit_span calls it with the
\* normalized_font of a span
NormalizeAgain ==
    /\ fn.pc = "normalized"
    /\ fn' = [fn EXCEPT !.pc = "renormalized",
                        !.again = normalize_font(fn.normalized_font)]
    /\ UNCHANGED <<files, undo_stacks, redo_stacks, last, threads>>

InitNormalize ==
    /\ files = EmptyDict
    /\ undo_stacks = EmptyDict
    /\ redo_stacks = EmptyDict
    /\ last = NoCall
    /\ threads = EmptyDict
    /\ fn \in {[pc |-> "name", font_name |-> prefix \o family \o style,
                normalized_font |-> <<>>, again |-> <<>>] :
                  prefix \in SubsetPrefixes, family \in FontFamilies,
                  style \in StyleSuffixes}

NextNormalize ==
    \/ NormalizeFont
    \/ NormalizeAgain

SpecNormalize == InitNormalize /\ [][NextNormalize]_vars

(***************************************************************************)
(* document.py: save_upload with any content.  The content is told by what *)
(* the function asks of it: whether it is longer than MAX_UPLOAD_SIZE and  *)
(* whether the PDF library opens it.                                       *)
(***************************************************************************)
\* the bytes of a file the PDF library cannot open
UnreadableBytes == MaxRev + 1

UploadContents == [oversize : BOOLEAN, opens : BOOLEAN]

\* two more ids save_upload may draw
IdC == [k \in 1..16 |-> "0"]
IdD == [k \in 1..16 |-> "f"]

UploadIds == {IdA, IdB, IdC, IdD}

\* the exception save_upload ends with
save_upload_exc(content) ==
    IF content.oversize THEN "ValueError"
    ELSE IF ~content.opens THEN "FileDataError"
    ELSE "none"

\* save_upload(content, filename); doc_id is the id it draws from the
\* content hash and the random suffix, one no file has yet
SaveUploadContent(doc_id, content) ==
    /\ IsHex16(doc_id)
    /\ ~path_exists(doc_id)
    /\ files' = IF content.oversize THEN files
                ELSE Put(files, doc_id,
                         IF content.opens THEN 0 ELSE UnreadableBytes)
    /\ last' = CallRecord("save_upload", doc_id, 0, save_upload_exc(content),
                           IF save_upload_exc(content) = "none" THEN 200 ELSE 400,
                           IF save_upload_exc(content) = "none" THEN doc_id
                           ELSE Null)
    /\ UNCHANGED <<undo_stacks, redo_stacks, threads, fn>>

NextUpload ==
    \E doc_id \in UploadIds, content \in UploadContents :
        SaveUploadContent(doc_id, content)

SpecUpload == Init /\ [][NextUpload]_vars

(***************************************************************************)
(* pdf_service.py: edit_span, the function main.py imports and the edit    *)
(* endpoint calls.  Its stages are named as those of the edit_span of      *)
(* text_service.py.                                                        *)
(***************************************************************************)
\* span indices a request may carry
SpanIndices == {-1, 0, 1}

\* the stages after the target was found: redaction, insert_textbox in the
\* Base14 font (again in a taller box when the first returned rc < 0) for a
\* new text that is not empty, and the save
endpoint_edit_stages(new_text, rc) ==
    <<"redact">>
        \o (IF new_text = <<>> THEN <<>>
            ELSE IF rc < 0 THEN <<"base14", "base14">>
            ELSE <<"base14">>)
        \o <<"save">>

\* pdf_service.edit_span from the lookup of the target to the return; found:
\* the page has an item with the index
EndpointEditSpan ==
    /\ fn.pc = "called"
    /\ \E found \in BOOLEAN, rc \in TextboxResults :
        fn' = IF found /\ fn.span_index >= 0
              THEN [fn EXCEPT !.pc = "returned",
                              !.stages = endpoint_edit_stages(fn.args.new_text, rc)]
              ELSE [fn EXCEPT !.pc = "raised"]
    /\ UNCHANGED <<files, undo_stacks, redo_stacks, last, threads>>

InitEndpointEdit ==
    /\ files = EmptyDict
    /\ undo_stacks = EmptyDict
    /\ redo_stacks = EmptyDict
    /\ last = NoCall
    /\ threads = EmptyDict
    /\ fn \in {[pc |-> "called", args |-> args, span_index |-> span_index,
                stages |-> <<>>] :
                  args \in EditArgs, span_index \in SpanIndices}

NextEndpointEdit ==
    \/ EndpointEditSpan

SpecEndpointEdit == InitEndpointEdit /\ [][NextEndpointEdit]_vars

(***************************************************************************)
(* Properties                                                              *)
(***************************************************************************)
DocOps == Mutators \cup PageReaders \cup {"undo", "redo", "get_pdf_bytes"}
PageOps == Mutators \cup PageReaders

\* C1: an undo called right after a successful mutating call on the same
\* document returns True and leaves in the file the bytes it held just
\* before that mutating call.
C1_UndoAfterMutationRestores ==
    (last.op = "undo" /\ last.prior.kind = "mutator" /\ last.prior.ok)
        => /\ last.exc = "none"
           /\ last.ret = TRUE
           /\ files[last.doc_id] = last.prior.before

\* C1 witness: an undo right after a successful mutation that started from
\* revision 1 (so the restored bytes differ from the upload's)
C1_Witness ==
    /\ last.op = "undo" /\ last.prior.kind = "mutator" /\ last.prior.ok
    /\ last.prior.before = 1
    /\ last.before = 2

\* C2: the undo stack and the redo stack of every document hold at most
\* MAX_UNDO entries, and a snapshot taken on a full undo stack drops its
\* oldest entry and puts the file's bytes on top of the others.
C2_StacksBounded ==
    /\ [](\A d \in DOMAIN undo_stacks : Len(undo_stacks[d]) <= MAX_UNDO)
    /\ [](\A d \in DOMAIN redo_stacks : Len(redo_stacks[d]) <= MAX_UNDO)
    /\ [][\A d \in DOMAIN files :
            (/\ last'.op \in Mutators /\ last'.doc_id = d
             /\ Len(Get(undo_stacks, d, <<>>)) = MAX_UNDO)
            => undo_stacks'[d] = Append(Tail(undo_stacks[d]), files[d])]_vars

\* C2 witness: a mutating call has just snapshotted onto a full undo stack
\* whose oldest and newest entries differ
C2_Witness ==
    /\ last.op \in Mutators /\ last.undo_len = MAX_UNDO
    /\ Len(undo_stacks[last.doc_id]) = MAX_UNDO
    /\ undo_stacks[last.doc_id][1] # undo_stacks[last.doc_id][MAX_UNDO]

\* C3: right after a mutating call on an existing document its redo stack is
\* empty, and a redo called right after such a call returns False.
C3_MutationClearsRedo ==
    /\ (last.op \in Mutators /\ last.before # NoFile)
            => Get(redo_stacks, last.doc_id, <<>>) = <<>>
    /\ (last.op = "redo" /\ last.prior.kind = "mutator")
            => (last.exc = "none" /\ last.ret = FALSE)

\* C3 witness: a mutating call on a document whose redo stack held an entry
C3_Witness ==
    /\ last.op \in Mutators /\ last.before # NoFile
    /\ last.redo_len > 0

C5_InvalidIdRejected ==
    (last.op \in DocOps /\ ~IsHex16(last.doc_id))
        => (last.exc = "ValueError" /\ last.status = 400)

\* C6: every entry point that takes a page number raises IndexError
\* (NotFound) for a page number outside 0..page_count-1 on an existing
\* document, and its endpoint answers 404.
C6_PageOutOfRangeNotFound ==
    (/\ last.op \in PageOps /\ last.before # NoFile
     /\ (last.page_num < 0 \/ last.page_num >= PageCount))
        => (last.exc = "IndexError" /\ last.status = 404)

\* C7: when edit_span raises, the document's file holds the bytes it held
\* when the call started (and no file appears where there was none).
C7_FailedEditLeavesFile ==
    (last.op = "edit_span" /\ last.exc # "none")
        => Get(files, last.doc_id, NoFile) = last.before

\* C7 witness: edit_span raised in the redaction or reinsertion stage, on a
\* document that had been edited before
C7_Witness ==
    /\ last.op = "edit_span" /\ last.exc = "RuntimeError"
    /\ last.before = 1

\* a call that has run its first step and has steps left to run
Running(t) == threads[t].started /\ threads[t].pc \notin {"idle", "return"}

\* C8: mutating calls on the same document are serialised across the worker
\* threads: no two of them are in progress on one doc_id at the same time.
C8_MutationsSerialised ==
    \A t1, t2 \in DOMAIN threads :
        (/\ t1 # t2
         /\ threads[t1].op \in Mutators /\ threads[t2].op \in Mutators
         /\ threads[t1].doc_id = threads[t2].doc_id)
            => ~(Running(t1) /\ Running(t2))

\* C9: for every stream on which the tokenizer returns, tokenizing the
\* single-space join of its tokens returns, and returns the same tokens in
\* the same order.
C9_TokenizerIdempotent ==
    /\ fn.pc # "rehung"
    /\ fn.pc = "retokenized" => fn.again = fn.tokens

\* C9 witness: a literal string directly followed by a name: two tokens,
\* whose join is one byte longer than the stream, tokenized again
C9_Witness ==
    /\ fn.pc = "retokenized"
    /\ fn.tokens = << <<LPAREN, RPAREN>>, <<SLASH, 97>> >>
    /\ Len(fn.raw) = 4
    /\ Len(join_tokens(fn.tokens)) = 5

\* C10: for WinAnsi and MacRoman and every text the encoder accepts,
\* decoding the encoded token with the same encoding gives the text back.
C10_CodecRoundTrip ==
    fn.pc \in {"encoded", "decoded"}
        => decode_pdf_string(fn.token, fn.encoding)
               = [exc |-> "none", text |-> fn.text]

\* C10 witness: a MacRoman text of a backslash, a line feed and an E-grave
\* has gone through the encoder and the decoder
C10_Witness ==
    /\ fn.pc = "decoded"
    /\ fn.encoding = "MacRomanEncoding"
    /\ fn.text = <<BACKSLASH, LF, 200>>
    /\ fn.token = <<LPAREN, BACKSLASH, BACKSLASH, BACKSLASH, 110, 233, RPAREN>>

\* every character of the text is in the reverse map or has an equivalent
\* in it
AllEncodable(text, reverse) ==
    \A k \in 1..Len(text) : stand_in(text[k], reverse) # <<>>

C18_BytesPerCodeOneOrTwo ==
    fn.pc \in {"parsed", "no_cmap", "encoded", "decoded", "raised"}
        => fn.bytes_per_code \in {1, 2}

\* C12: the spans extract_text_spans returns carry the indices 0..N-1 in
\* list order; _find_span_by_index(page, i) returns the item with the bbox
\* and text of span i for 0 <= i < N and an absent value for any other i.
C12_IndexingStable ==
    /\ fn.pc \in {"extracted", "found"}
        => \A k \in 1..Len(fn.spans) : fn.spans[k].index = k - 1
    /\ fn.pc = "found"
        => IF 0 <= fn.span_index /\ fn.span_index < Len(fn.spans)
           THEN /\ fn.target # None
                /\ fn.target.bbox = fn.spans[fn.span_index + 1].bbox
                /\ fn.target.text = fn.spans[fn.span_index + 1].text
           ELSE fn.target = None

\* C12 witness: a page whose two blocks give one merged span and the lookup
\* of index 0 has returned it
C12_Witness ==
    /\ fn.pc = "found"
    /\ Len(fn.page) = 2
    /\ Len(fn.spans) = 1
    /\ fn.span_index = 0
    /\ fn.target.text = TextTwo \o <<SP>> \o TextBackground

C16_ContinuationStripped ==
    (fn.pc = "split" /\ fn.block.lines = <<LineFirst, LineContinues, LineSecond>>)
        => [k \in 1..Len(fn.items) |-> fn.items[k].text]
               = <<TextFirst \o <<LF>> \o lstrip(TextContinues), TextSecond>>

\* C17: two items from different blocks next to each other on one row, with a
\* vertical overlap of more than half the smaller height and a left-to-right
\* gap g, 0 <= g < max(size of the two), are merged by _collect_page_items
\* into one span whose text is the left text, a space, the right text and
\* whose bbox is the union, whichever of the two has the smaller y0.
C17_RowMergedAcrossBlocks ==
    (/\ fn.pc = "extracted"
     /\ Len(fn.page) = 2
     /\ \A k \in 1..2 : fn.page[k].type = 0
     /\ {fn.page[1].lines, fn.page[2].lines}
            \in {{<<LineTwo>>, <<LineBackground>>},
                 {<<LineTwo>>, <<LineBackgroundHigher>>}})
        => LET bboxes == <<fn.page[1].lines[1].bbox, fn.page[2].lines[1].bbox>>
           IN  /\ Len(fn.spans) = 1
               /\ fn.spans[1].text = TextTwo \o <<SP>> \o TextBackground
               /\ fn.spans[1].bbox = union_bbox(bboxes)

\* C14: for every image insertion, move or resize and every text
\* reinsertion, whatever position and size are requested, the rectangle
\* handed to the renderer satisfies 0 <= x0 < x1 <= page.width and
\* 0 <= y0 < y1 <= page.height.
C14_RectOnPage ==
    fn.pc = "drawn" => \A k \in 1..Len(fn.rects) : on_page(fn.rects[k])

\* the stage is in the list
Done(stage) == \E k \in 1..Len(fn.stages) : fn.stages[k] = stage

\* every stage a comes before every stage b in the list
Precedes(a, b) ==
    \A j, k \in 1..Len(fn.stages) :
        (fn.stages[j] = a /\ fn.stages[k] = b) => j < k

\* C15: edit_span runs its stages in a fixed order: content-stream surgery
\* is attempted exactly when no font, size or color override is given and
\* new_text is not empty; the span's bbox is redacted only after surgery was
\* skipped or failed; text is reinserted only after the redaction; the
\* Base14 substitute is drawn only after reinsertion with the extracted font
\* was unavailable or failed; a successful surgery is saved with no
\* redaction.
C15_StageOrder ==
    LET no_override == /\ fn.args.font = None /\ fn.args.size = None
                       /\ fn.args.color = None
        past_surgery == fn.pc \notin {"called", "raised", "found"}
    IN  /\ past_surgery
            => (Done("surgery") <=> (no_override /\ fn.args.new_text # <<>>))
        /\ ~past_surgery => fn.stages = <<>>
        /\ Done("redact") => (~Done("surgery") \/ ~fn.surgery_ok)
        /\ Precedes("surgery", "redact")
        /\ (Done("extracted_font") \/ Done("base14")) => Done("redact")
        /\ Precedes("redact", "extracted_font") /\ Precedes("redact", "base14")
        /\ Done("base14") => (~Done("extracted_font") \/ ~fn.inserted)
        /\ Precedes("extracted_font", "base14")
        /\ (fn.pc = "returned" /\ fn.surgery_ok)
            => fn.stages = <<"surgery", "save">>
        /\ (fn.pc = "returned" /\ ~fn.surgery_ok /\ fn.args.new_text # <<>>)
            => (Done("extracted_font") /\ fn.inserted) \/ Done("base14")

\* C15 witness: a text-only edit whose surgery failed and whose reinsertion
\* with the extracted font failed has been redacted, drawn in a Base14 font
\* and saved
C15_Witness ==
    /\ fn.pc = "returned"
    /\ fn.stages = <<"surgery", "redact", "extracted_font", "base14", "save">>

\* pieces that select a font of their own which is not skipped
UsablePieces ==
    {PieceF1A, PieceF1Split, PieceF1AB, PieceF1Array, PieceF1SplitArray, PieceF3A,
     PieceF3Split, PieceF1Three}

\* the mode of the font a usable piece selects
piece_mode(piece) == resolve_font(Tail(piece[2]), PageFonts)

\* the texts of the operands of a piece, in order
RECURSIVE operand_texts(_, _)
operand_texts(piece, k) ==
    IF k > Len(piece) THEN <<>>
    ELSE (IF piece[k] = TokTj
          THEN <<decode_operand(piece[k - 1], piece_mode(piece)).text>>
          ELSE IF piece[k] = TokTJ
          THEN <<decode_parts(extract_tj_strings(piece[k - 1]),
                              piece_mode(piece)).text>>
          ELSE <<>>)
         \o operand_texts(piece, k + 1)

\* an operand of the piece, or the piece as a whole, decodes to the target
piece_matches(piece, target_text) ==
    LET texts == operand_texts(piece, 2)
    IN  \/ \E k \in 1..Len(texts) : strip(texts[k]) = strip(target_text)
        \/ strip(concat(texts)) = strip(target_text)

\* the positions of piece p in the token list
piece_range(pieces, p) ==
    LET before == Len(concat(SubSeq(pieces, 1, p - 1)))
    IN  (before + 1)..(before + Len(pieces[p]))

\* the positions whose token the call changed
Changed == {k \in 1..Len(fn.tokens) : fn.out[k] # fn.tokens[k]}

\* C19: when more than one Tj/TJ operand or BT..ET block of the stream
\* decodes to the target text, _find_and_replace_text modifies only the match
\* that comes first in the token list, whether a match is a single operand or
\* a block split over several operands.
C19_EarliestMatchOnly ==
    (/\ fn.pc = "returned" /\ fn.ret = "True"
     /\ \A p \in 1..Len(fn.pieces) : fn.pieces[p] \in UsablePieces)
        => \A p \in 1..Len(fn.pieces) :
              (/\ piece_matches(fn.pieces[p], fn.target_text)
               /\ \A q \in 1..(p - 1) :
                     ~piece_matches(fn.pieces[q], fn.target_text))
                  => Changed \subseteq piece_range(fn.pieces, p)

\* the mode of the font in effect at position k: that of the most recent Tf
\* before it
RECURSIVE font_in_effect(_, _)
font_in_effect(tokens, k) ==
    IF k < 1 THEN NoFontMode
    ELSE IF names_font(tokens, k) THEN resolve_font(Tail(tokens[k - 2]), PageFonts)
    ELSE font_in_effect(tokens, k - 1)

\* C20: in both passes _find_and_replace_text never replaces or blanks an
\* operand drawn while the font in effect (the most recent Tf before it, also
\* one in an earlier BT..ET block) resolves to skip mode, and a skip-mode
\* font in one block does not keep a later block under a usable font from
\* matching.
C20_SkipFontUntouched ==
    fn.pc = "returned"
        => /\ \A k \in Changed : ~font_in_effect(fn.tokens, k).skip_font
           /\ \A p \in 1..Len(fn.pieces) :
                (/\ fn.pieces[p] \in UsablePieces
                 /\ piece_matches(fn.pieces[p], fn.target_text)
                 /\ encode_operand(fn.new_text, piece_mode(fn.pieces[p])).exc
                        = "none"
                 /\ \A q \in 1..(p - 1) : fn.pieces[q] = PieceF2A)
                    => fn.ret = "True"

\* an operand of the piece on its own decodes to the target
operand_matches(piece, target_text) ==
    LET texts == operand_texts(piece, 2)
    IN  \E k \in 1..Len(texts) : strip(texts[k]) = strip(target_text)

\* the piece is the one whose match the call tries first: the first piece
\* with an operand that decodes to the target, or with no such operand in
\* the stream the first piece that matches as a block
first_tried(pieces, p, target_text) ==
    IF \E q \in 1..Len(pieces) : operand_matches(pieces[q], target_text)
    THEN /\ operand_matches(pieces[p], target_text)
         /\ \A q \in 1..(p - 1) : ~operand_matches(pieces[q], target_text)
    ELSE /\ piece_matches(pieces[p], target_text)
         /\ \A q \in 1..(p - 1) : ~piece_matches(pieces[q], target_text)

\* new_text cannot be encoded in the font of the piece
encoding_fails(piece, new_text) ==
    encode_operand(new_text, piece_mode(piece)).exc = "ValueError"

\* C21: whenever _find_and_replace_text returns failure the token list is
\* identical to the input token list, and an encoding failure at the match
\* tried first ends the call with failure: no later operand and no later
\* pass is tried.
C21_FailureLeavesTokens ==
    fn.pc = "returned"
        => /\ fn.ret # "True" => fn.out = fn.tokens
           /\ (\A p \in 1..Len(fn.pieces) : fn.pieces[p] \in UsablePieces)
                 => \A p \in 1..Len(fn.pieces) :
                       (/\ first_tried(fn.pieces, p, fn.target_text)
                        /\ encoding_fails(fn.pieces[p], fn.new_text))
                          => fn.ret = "False"

\* an encoding failure at a block match of pass 2, with a later block that
\* matches in a font that can encode new_text
C21_Witness ==
    /\ fn.pc = "returned" /\ fn.ret = "False" /\ fn.out = fn.tokens
    /\ \A p \in 1..Len(fn.pieces) :
          /\ fn.pieces[p] \in UsablePieces
          /\ ~operand_matches(fn.pieces[p], fn.target_text)
    /\ \E p, q \in 1..Len(fn.pieces) :
          /\ p < q
          /\ first_tried(fn.pieces, p, fn.target_text)
          /\ encoding_fails(fn.pieces[p], fn.new_text)
          /\ piece_matches(fn.pieces[q], fn.target_text)
          /\ ~encoding_fails(fn.pieces[q], fn.new_text)

\* the positions of the Tj/TJ operands of piece p in the token list, in order
operand_positions(pieces, p) ==
    LET before == Len(concat(SubSeq(pieces, 1, p - 1)))
        RECURSIVE from(_)
        from(k) ==
            IF k > Len(pieces[p]) THEN <<>>
            ELSE (IF pieces[p][k] \in {TokTj, TokTJ} THEN <<before + k - 1>>
                  ELSE <<>>) \o from(k + 1)
    IN  from(2)

\* C22: on a pass-2 match the only tokens that change are the recorded
\* Tj/TJ operands of the matching block: the first becomes the encoded new
\* text (wrapped in [ ] when its operator is TJ), each other one becomes ()
\* for Tj or [()] for TJ, and every other token keeps its value and
\* position, so the list length is unchanged.
C22_Pass2Frame ==
    (/\ fn.pc = "returned" /\ fn.ret = "True"
     /\ \A p \in 1..Len(fn.pieces) :
           /\ fn.pieces[p] \in UsablePieces
           /\ ~operand_matches(fn.pieces[p], fn.target_text))
        => \A p \in 1..Len(fn.pieces) :
              first_tried(fn.pieces, p, fn.target_text)
                  => LET ops == operand_positions(fn.pieces, p)
                         new_tok == encode_operand(fn.new_text,
                                                   piece_mode(fn.pieces[p])).token
                     IN  /\ Len(fn.out) = Len(fn.tokens)
                         /\ \A k \in 1..Len(fn.tokens) :
                               fn.out[k] =
                                 IF k = ops[1]
                                 THEN IF fn.tokens[k + 1] = TokTJ
                                      THEN <<LBRACKET>> \o new_tok \o <<RBRACKET>>
                                      ELSE new_tok
                                 ELSE IF \E j \in 2..Len(ops) : ops[j] = k
                                 THEN IF fn.tokens[k + 1] = TokTJ
                                      THEN <<LBRACKET, LPAREN, RPAREN, RBRACKET>>
                                      ELSE <<LPAREN, RPAREN>>
                                 ELSE fn.tokens[k]

\* a pass-2 match on a block of three operands, TJ, Tj and TJ, after an
\* earlier block that does not match
C22_Witness ==
    /\ fn.pc = "returned" /\ fn.ret = "True"
    /\ \A p \in 1..Len(fn.pieces) :
          /\ fn.pieces[p] \in UsablePieces
          /\ ~operand_matches(fn.pieces[p], fn.target_text)
    /\ \E p \in 2..Len(fn.pieces) :
          /\ first_tried(fn.pieces, p, fn.target_text)
          /\ fn.pieces[p] = PieceF1Three
          /\ Cardinality(Changed) = 3

\* C23: try_direct_edit returns failure for every target_text that contains
\* a newline, without cleaning, reading or updating the page content stream.
C23_MultilineRefused ==
    (/\ fn.pc \in {"returned", "hung"}
     /\ LF \in {fn.target_text[k] : k \in 1..Len(fn.target_text)})
        => /\ fn.pc = "returned" /\ fn.ret = "False"
           /\ fn.calls = <<>>
           /\ fn.stream = fn.page.stream

\* the target "A" followed by a newline is refused on a page whose stream
\* draws "A" in a plain font, where the target stripped would match
C23_Witness ==
    /\ fn.pc = "returned" /\ fn.ret = "False" /\ fn.calls = <<>>
    /\ fn.target_text = <<65, LF>>
    /\ fn.page.stream = join_tokens(PieceF1A)

\* C25: _tokenize_stream terminates on every finite byte string, including
\* input that holds a closing delimiter ')', ']' or a single '>' outside any
\* string or array, and input with an unterminated string, hex string or
\* array.
C25_TokenizerTerminates == fn.pc \notin {"hung", "rehung"}

\* the positions of the forward map whose value is the single character c
single_entries(forward, c) == {n \in 1..Len(forward) : forward[n][2] = <<c>>}

\* C24: _build_reverse_cmap contains exactly the characters that are the
\* whole value of some single-codepoint forward entry; for each such
\* character c the stored code is the first code in forward-map order that
\* maps to c, so forward[reverse[c]] == c, and multi-codepoint forward
\* entries add nothing.
C24_ReverseFirstWins ==
    fn.pc \in {"parsed", "no_cmap"}
        => /\ {fn.reverse[n][1] : n \in 1..Len(fn.reverse)}
                = {fn.forward[n][2][1] :
                      n \in {m \in 1..Len(fn.forward) : Len(fn.forward[m][2]) = 1}}
           /\ \A n, m \in 1..Len(fn.reverse) :
                 fn.reverse[n][1] = fn.reverse[m][1] => n = m
           /\ \A n \in 1..Len(fn.reverse) :
                 LET c == fn.reverse[n][1]
                     first == CHOOSE k \in single_entries(fn.forward, c) :
                                 \A j \in single_entries(fn.forward, c) : k <= j
                 IN  /\ fn.reverse[n][2] = fn.forward[first][1]
                     /\ dict_get(fn.forward, fn.reverse[n][2]) = <<c>>

\* two codes map to one character and another entry maps to two characters
C24_Witness ==
    /\ fn.pc = "parsed"
    /\ \E c \in {fn.reverse[n][1] : n \in 1..Len(fn.reverse)} :
          Cardinality(single_entries(fn.forward, c)) >= 2
    /\ \E n \in 1..Len(fn.forward) : Len(fn.forward[n][2]) >= 2

\* C26: if a mutating operation fails after it was called on an existing
\* document (span index not found, image index not found, page out of
\* range), the undo stack and the redo stack of that document are the same
\* as before the call.
C26_FailedMutationKeepsStacks ==
    [][(/\ last'.op \in Mutators /\ last'.before # NoFile
        /\ last'.exc = "IndexError")
          => /\ Get(undo_stacks', last'.doc_id, <<>>)
                    = Get(undo_stacks, last'.doc_id, <<>>)
             /\ Get(redo_stacks', last'.doc_id, <<>>)
                    = Get(redo_stacks, last'.doc_id, <<>>)]_vars

\* C27: for any state in which undo(doc_id) returns true, a redo(doc_id)
\* called right after it returns true and restores the file bytes, the undo
\* stack and the redo stack to exactly what they were before the undo; undo
\* and redo on an empty stack return false and change neither the file nor
\* the stacks.
C27_RedoRevertsUndo ==
    /\ (last.op = "redo" /\ last.prior.kind = "undo")
          => /\ last.ret = TRUE
             /\ HistoryView(last.doc_id) = fn.before_undo
    /\ (last.op = "undo" /\ fn.before.undo = <<>>)
          => /\ last.ret = FALSE
             /\ HistoryView(last.doc_id) = fn.before
    /\ (last.op = "redo" /\ fn.before.redo = <<>>)
          => /\ last.ret = FALSE
             /\ HistoryView(last.doc_id) = fn.before

\* a redo right after an undo that was called with a snapshot on the undo
\* stack and one on the redo stack
C27_Witness ==
    /\ last.op = "redo" /\ last.prior.kind = "undo" /\ last.ret = TRUE
    /\ Len(fn.before_undo.undo) = 1
    /\ Len(fn.before_undo.redo) = 1
    /\ HistoryView(last.doc_id) = fn.before_undo

\* C28: _normalize_font returns, for every font name, one of the fourteen
\* Base14 identifiers helv, heit, hebo, hebi, tiro, tiit, tibo, tibi, cour,
\* coit, cobo, cobi, symb, zadb, and applying it to its own result returns
\* that same result.
C28_NormalizeFontBase14 ==
    /\ fn.pc \in {"normalized", "renormalized"} => fn.normalized_font \in Base14
    /\ fn.pc = "renormalized" => fn.again = fn.normalized_font

\* C29: if save_upload raises, either because the content is over
\* MAX_UPLOAD_SIZE or because the PDF library cannot open it, then no file
\* was added to the upload directory by that call.
C29_FailedUploadLeavesNoFile ==
    [][(last'.op = "save_upload" /\ last'.exc # "none") => files' = files]_vars

\* C30: the edit_span that the HTTP edit endpoint dispatches to behaves as
\* text_service.edit_span does: for a request with no font, size or color
\* override and non-empty new_text it attempts content-stream surgery before
\* any redaction, and it resolves span_index against the same merged item
\* list that the text-extraction endpoint returns.
C30_EndpointEditAttemptsSurgery ==
    (/\ fn.pc = "returned"
     /\ fn.args.font = None /\ fn.args.size = None /\ fn.args.color = None
     /\ fn.args.new_text # <<>>)
        => /\ Done("surgery")
           /\ Precedes("surgery", "redact")

====
